---- MODULE Spec2Model ----
(***************************************************************************)
(* Verification model of monument-reverb's measurement pipeline.           *)
(*                                                                         *)
(* Sweep orchestrator (scripts/sweep_drift_chaos.py): main() is modelled   *)
(* as a state machine over the output directory.  One action per           *)
(* subprocess invocation or in-process step, so that an interruption can   *)
(* fall between any two of them.  The output directory persists between    *)
(* runs; everything else is reset when a run starts.                       *)
(*                                                                         *)
(* Units: drift and chaos values are integers counting 1e-5 (so 50000 is   *)
(* 0.5); RT60 and the capture duration are whole seconds.                  *)
(***************************************************************************)
EXTENDS Integers, Sequences, FiniteSets, TLC

(* ---- bounds ---- *)
MaxRuns == 2

(* Python None for a numeric field *)
Null == -1

(* ------------------------------------------------------------------ *)
(* Text helpers: strings are sequences of one-character strings        *)
(* ------------------------------------------------------------------ *)
DigitChar(d) == CASE d = 0 -> "0" [] d = 1 -> "1" [] d = 2 -> "2" [] d = 3 -> "3"
                  [] d = 4 -> "4" [] d = 5 -> "5" [] d = 6 -> "6" [] d = 7 -> "7"
                  [] d = 8 -> "8" [] OTHER -> "9"

RECURSIVE DecStr(_)
DecStr(n) == IF n < 10 THEN <<DigitChar(n)>>
             ELSE DecStr(n \div 10) \o <<DigitChar(n % 10)>>

RECURSIVE ZeroPad(_, _)
ZeroPad(s, width) == IF Len(s) >= width THEN s ELSE ZeroPad(<<"0">> \o s, width)

RECURSIVE RStrip(_, _)
RStrip(s, ch) == IF Len(s) > 0 /\ s[Len(s)] = ch
                 THEN RStrip(SubSeq(s, 1, Len(s) - 1), ch)
                 ELSE s

(* f"{value:.4f}": four decimals, nearest.  Inputs are kept off the exact  *)
(* half-way digit, where the binary double decides the direction.          *)
Fixed4(value) ==
    LET q == (value + 5) \div 10
    IN  DecStr(q \div 10000) \o <<".">> \o ZeroPad(DecStr(q % 10000), 4)

format_value(value) ==
    LET text == RStrip(RStrip(Fixed4(value), "0"), ".")
    IN  IF Len(text) > 0 THEN text ELSE <<"0">>

clamp_unit(value) ==
    IF value < 0 \/ value > 100000
    THEN (IF value < 0 THEN 0 ELSE 100000)
    ELSE value

(* f"{preset:02d}" *)
PresetLabel(preset) == ZeroPad(DecStr(preset), 2)

(* output_base / preset_XX / drift_A_chaos_B *)
run_dir(preset, drift, chaos) ==
    <<PresetLabel(preset), format_value(drift), format_value(chaos)>>

(* ------------------------------------------------------------------ *)
(* Command line                                                        *)
(* ------------------------------------------------------------------ *)
RECURSIVE SortedSeq(_)
SortedSeq(S) == IF S = {} THEN <<>>
                ELSE LET m == CHOOSE x \in S : \A y \in S : x <= y
                     IN  <<m>> \o SortedSeq(S \ {m})

(* --presets: a token is a range <<start, end>>; "3" is <<3, 3>> *)
parse_index_list(tokens) ==
    SortedSeq(UNION {tokens[t][1] .. tokens[t][2] : t \in DOMAIN tokens})

(* --drift / --chaos: values in the order given, duplicates kept *)
parse_float_list(tokens) == tokens

ClampAll(values) == [k \in DOMAIN values |-> clamp_unit(values[k])]

Product_drift_major(P, D, C) ==
    [k \in 1 .. Len(P) * Len(D) * Len(C) |->
        <<P[((k - 1) % Len(P)) + 1],
          D[((k - 1) \div (Len(P) * Len(C))) + 1],
          C[(((k - 1) \div Len(P)) % Len(C)) + 1]>>]

(* itertools.product(presets, drift_values, chaos_values) *)
Product(P, D, C) ==
    [k \in 1 .. Len(P) * Len(D) * Len(C) |->
        <<P[((k - 1) \div (Len(D) * Len(C))) + 1],
          D[(((k - 1) \div Len(C)) % Len(D)) + 1],
          C[((k - 1) % Len(C)) + 1]>>]

GridOf(m) == Product(parse_index_list(m.presets),
                     ClampAll(parse_float_list(m.drift)),
                     ClampAll(parse_float_list(m.chaos)))

(* --duration, seconds *)
Duration == 30

(* --presets 1,0: given out of order *)
GridManifest == [presets |-> <<<<1, 1>>, <<0, 0>>>>, drift |-> <<0, 50000>>, chaos |-> <<100000>>]
CellManifest == [presets |-> <<<<3, 3>>>>, drift |-> <<50000>>, chaos |-> <<0>>]

(* ------------------------------------------------------------------ *)
(* RT60 documents and runaway detection                                *)
(* ------------------------------------------------------------------ *)
(* words of a note that contain "decay" once lower-cased *)
DecayWords == {"decay", "Decay", "non-decay", "decays"}

ContainsDecay(notes) == \E k \in DOMAIN notes : notes[k] \in DecayWords

(* rt60_data: [present, analysis_notes, rt60_seconds]; rt60_seconds is     *)
(* Null for a JSON null or a missing key                                   *)
NoDoc == [present |-> FALSE, analysis_notes |-> <<>>, rt60_seconds |-> Null]

detect_runaway(rt60_data, duration_seconds) ==
    IF ~rt60_data.present THEN FALSE
    ELSE LET rt60 == IF rt60_data.rt60_seconds = Null THEN 0 ELSE rt60_data.rt60_seconds
         IN  IF rt60_data.analysis_notes # <<>> /\ ContainsDecay(rt60_data.analysis_notes)
             THEN TRUE
             ELSE rt60 > 0 /\ 10 * rt60 >= 9 * duration_seconds

(* What one run of rt60_analysis_robust.py can write with --output: the    *)
(* broadband RT60 (Null when no tier found a crossing) and, on its log,    *)
(* whether manual_rt60_calculation said the signal does not decay within   *)
(* the recording.  The document has no analysis_notes key.                 *)
Rt60ToolResults ==
    { [rt60 |-> 10,   nondecay |-> FALSE],
      [rt60 |-> 27,   nondecay |-> FALSE],
      [rt60 |-> Null, nondecay |-> TRUE] }

(* The sweeps that are explored: a grid of 2 presets x 2 drift values x 1   *)
(* chaos value swept once into an empty directory, with recordings that    *)
(* all decay alike, and a single cell swept MaxRuns times into the same    *)
(* directory with every kind of recording.  (Cells only meet through       *)
(* their directories; many cells over many runs is the product of both.)   *)
Sweeps == { [manifest |-> GridManifest, runs |-> 1,
             recordings |-> {[rt60 |-> 10, nondecay |-> FALSE]}],
            [manifest |-> CellManifest, runs |-> MaxRuns,
             recordings |-> Rt60ToolResults] }

(* ------------------------------------------------------------------ *)
(* State of the sweep orchestrator                                     *)
(* ------------------------------------------------------------------ *)
VARIABLES
    manifest,      \* --presets / --drift / --chaos as given
    runLimit,      \* number of runs explored for this manifest
    recordings,    \* what the RT60 tool can find in this sweep's recordings
    args,          \* [force, strict, no_analysis] of the current run
    runNo,         \* number of runs started so far
    pc,            \* position of main()
    i,             \* index of the current grid cell (1-based)
    fs,            \* output directory: run_dir -> contents
    out,           \* files of output_base written by the current run
    results,       \* result rows of the current run
    failures,      \* failure counter of the current run
    stability_ok,  \* local of the current cell: "none", "true", "false"
    exitCode,      \* exit status of the last run, Null while none
    inv,           \* per cell of the current run: what was seen and invoked
    cmp,           \* compare_baseline.py: one run of the comparator
    chk,           \* check_audio_stability.py: one run of the checker
    est,           \* rt60_analysis_robust.py: one run of the decay estimator
    val,           \* validate_schemas.py: one run of the schema validator
    spa,           \* spatial_metrics.py: one run of the spatial analyzer
    ldr            \* one WAV file and what each tool's loader makes of it

sweepVars == <<manifest, runLimit, recordings, args, runNo, pc, i, fs, out, results,
               failures, stability_ok, exitCode, inv>>

toolVars == <<cmp, chk, est, val, spa, ldr>>

vars == <<sweepVars, toolVars>>

(* a tool that is not run *)
NotRun == [pc |-> "off"]

(* A data file is "absent", "partial" (created but not completely written) *)
(* or "good".  rt60 / nondecay are what the last complete RT60 run wrote   *)
(* to rt60_metrics.json and rt60_analysis.log; stability_log is the        *)
(* verdict on stability.log; written is the set of files written during   *)
(* the current run.                                                        *)
EmptyDir == [dry |-> "absent", wet |-> "absent", rt60_json |-> "absent",
             freq_json |-> "absent", rt60 |-> Null, nondecay |-> FALSE,
             stability_log |-> "absent", written |-> {}]

Dir(d) == IF d \in DOMAIN fs THEN fs[d] ELSE EmptyDir

Exists(state) == state # "absent"

Grid == GridOf(manifest)
NCells == Len(Grid)
CellDir(k) == run_dir(Grid[k][1], Grid[k][2], Grid[k][3])

(* History of one cell in the current run: the directory as the run found  *)
(* it (pre), what each decision saw, and the number of invocations.        *)
NoInv(pre) == [pre |-> pre, reached |-> FALSE, had_wavs |-> FALSE,
               wet_seen |-> FALSE,
               rt60_decided |-> FALSE, had_rt60 |-> FALSE,
               freq_decided |-> FALSE, had_freq |-> FALSE,
               capture |-> 0, rt60 |-> 0, freq |-> 0, stability |-> 0]

Stopped == {"idle", "done", "returned", "crashed", "interrupted"}

(* ------------------------------------------------------------------ *)
(* main(): argument handling up to the start of the grid               *)
(* ------------------------------------------------------------------ *)
(* tools_found: the analyzer binary and the plugin exist *)
StartRun(force, strict, no_analysis, tools_found) ==
    /\ pc \in Stopped
    /\ runNo < runLimit
    /\ runNo' = runNo + 1
    /\ args' = [force |-> force, strict |-> strict, no_analysis |-> no_analysis]
    /\ results' = <<>>
    /\ failures' = 0
    /\ stability_ok' = "none"
    /\ i' = 1
    /\ fs' = [d \in DOMAIN fs |-> [fs[d] EXCEPT !.written = {}]]
    /\ inv' = [k \in 1 .. NCells |-> NoInv([Dir(CellDir(k)) EXCEPT !.written = {}])]
    /\ IF ~tools_found \/ parse_index_list(manifest.presets) = <<>>
       THEN /\ pc' = "returned"
            /\ exitCode' = 2
            /\ out' = {}
       ELSE /\ pc' = IF NCells = 0 THEN "summary" ELSE "capture"
            /\ exitCode' = Null
            /\ out' = {"sweep_manifest.json"}
    /\ UNCHANGED <<manifest, runLimit, recordings,
                   toolVars>>

(* ------------------------------------------------------------------ *)
(* one grid cell                                                       *)
(* ------------------------------------------------------------------ *)
capture_needed_ignoring_force(d) ==
    ~(Exists(Dir(d).dry) /\ Exists(Dir(d).wet))

capture_needed(d) ==
    args.force \/ ~(Exists(Dir(d).dry) /\ Exists(Dir(d).wet))

analysis_enabled_without_wav(d) ==
    ~args.no_analysis

analysis_enabled(d) ==
    ~args.no_analysis /\ Exists(Dir(d).wet)

rt60_needed_always(d) ==
    TRUE

rt60_needed(d) ==
    args.force \/ ~Exists(Dir(d).rt60_json)

freq_needed_always(d) ==
    TRUE

freq_needed(d) ==
    args.force \/ ~Exists(Dir(d).freq_json)

(* the capture tool is a black box: it exits 0 having written both WAV     *)
(* files, or exits non-zero having written nothing                         *)
CaptureOutcomes == {"ok", "fail"}

(* failures += 1; if args.strict: return 1 *)
AfterFailure(next) ==
    /\ failures' = failures + 1
    /\ IF args.strict
       THEN /\ pc' = "returned"
            /\ exitCode' = 1
       ELSE /\ pc' = next
            /\ exitCode' = exitCode

CaptureStep ==
    /\ pc = "capture"
    /\ LET d   == CellDir(i)
           cur == Dir(d)
           seen == [inv[i] EXCEPT !.reached = TRUE,
                                  !.had_wavs = Exists(cur.dry) /\ Exists(cur.wet)]
       IN  IF capture_needed(d)
           THEN \E o \in CaptureOutcomes :
                  /\ inv' = [inv EXCEPT ![i] = [seen EXCEPT !.capture = @ + 1]]
                  /\ IF o = "ok"
                     THEN /\ fs' = (d :> [cur EXCEPT !.dry = "good", !.wet = "good",
                                     !.written = @ \cup {"dry.wav", "wet.wav", "capture.log"}])
                                   @@ fs
                          /\ pc' = "metadata"
                          /\ UNCHANGED <<failures, exitCode>>
                     ELSE /\ fs' = (d :> [cur EXCEPT !.written = @ \cup {"capture.log"}]) @@ fs
                          /\ AfterFailure("metadata")
           ELSE /\ inv' = [inv EXCEPT ![i] = seen]
                /\ fs' = (d :> cur) @@ fs
                /\ pc' = "metadata"
                /\ UNCHANGED <<failures, exitCode>>
    /\ UNCHANGED <<manifest, runLimit, recordings, args, runNo, i, out, results,
                   stability_ok,
                   toolVars>>

MetadataStep ==
    /\ pc = "metadata"
    /\ LET d == CellDir(i)
       IN  /\ fs' = [fs EXCEPT ![d].written = @ \cup {"metadata.json"}]
           /\ stability_ok' = "none"
           /\ inv' = [inv EXCEPT ![i].wet_seen = Exists(fs[d].wet)]
           /\ pc' = IF analysis_enabled(d) THEN "rt60" ELSE "record"
    /\ UNCHANGED <<manifest, runLimit, recordings, args, runNo, i, out, results,
                   failures, exitCode,
                   toolVars>>

(* rt60_analysis_robust.py wet.wav --output rt60_metrics.json: exits 0     *)
(* having written the document, or exits 1 before writing anything         *)
Rt60Step ==
    /\ pc = "rt60"
    /\ LET d == CellDir(i)
           seen == [inv[i] EXCEPT !.rt60_decided = TRUE,
                                  !.had_rt60 = Exists(fs[d].rt60_json)]
       IN  IF rt60_needed(d)
           THEN /\ inv' = [inv EXCEPT ![i] = [seen EXCEPT !.rt60 = @ + 1]]
                /\ \/ \E r \in recordings :
                        /\ fs' = [fs EXCEPT ![d] = [@ EXCEPT
                                   !.rt60_json = "good", !.rt60 = r.rt60,
                                   !.nondecay = r.nondecay,
                                   !.written = @ \cup {"rt60_metrics.json", "rt60_analysis.log"}]]
                        /\ pc' = "freq"
                        /\ UNCHANGED <<failures, exitCode>>
                   \/ /\ fs' = [fs EXCEPT ![d].written = @ \cup {"rt60_analysis.log"}]
                      /\ AfterFailure("freq")
           ELSE /\ inv' = [inv EXCEPT ![i] = seen]
                /\ pc' = "freq"
                /\ UNCHANGED <<fs, failures, exitCode>>
    /\ UNCHANGED <<manifest, runLimit, recordings, args, runNo, i, out, results,
                   stability_ok,
                   toolVars>>

(* frequency_response.py wet.wav --impulse --output freq_metrics.json *)
FreqStep ==
    /\ pc = "freq"
    /\ LET d == CellDir(i)
           seen == [inv[i] EXCEPT !.freq_decided = TRUE,
                                  !.had_freq = Exists(fs[d].freq_json)]
       IN  IF freq_needed(d)
           THEN /\ inv' = [inv EXCEPT ![i] = [seen EXCEPT !.freq = @ + 1]]
                /\ \/ /\ fs' = [fs EXCEPT ![d] = [@ EXCEPT
                                   !.freq_json = "good",
                                   !.written = @ \cup {"freq_metrics.json", "freq_analysis.log"}]]
                      /\ pc' = "stability"
                      /\ UNCHANGED <<failures, exitCode>>
                   \/ /\ fs' = [fs EXCEPT ![d].written = @ \cup {"freq_analysis.log"}]
                      /\ AfterFailure("stability")
           ELSE /\ inv' = [inv EXCEPT ![i] = seen]
                /\ pc' = "stability"
                /\ UNCHANGED <<fs, failures, exitCode>>
    /\ UNCHANGED <<manifest, runLimit, recordings, args, runNo, i, out, results,
                   stability_ok,
                   toolVars>>

(* a variant that treats a failing stability check like a failing analysis *)
StabilityStep_counts_failure ==
    /\ pc = "stability"
    /\ \E stability_code \in {0, 1, 2} :
          /\ stability_ok' = IF stability_code = 0 THEN "true" ELSE "false"
          /\ fs' = [fs EXCEPT ![CellDir(i)] = [@ EXCEPT
                       !.stability_log = IF stability_code = 0 THEN "pass" ELSE "fail",
                       !.written = @ \cup {"stability.log"}]]
          /\ IF stability_code = 0
             THEN pc' = "record" /\ UNCHANGED <<failures, exitCode>>
             ELSE AfterFailure("record")
    /\ inv' = [inv EXCEPT ![i].stability = @ + 1]
    /\ UNCHANGED <<manifest, runLimit, recordings, args, runNo, i, out, results,
                   toolVars>>

(* check_audio_stability.py wet.wav: exit 0 pass, 1 violations, 2 unreadable *)
StabilityStep ==
    /\ pc = "stability"
    /\ \E stability_code \in {0, 1, 2} :
          /\ stability_ok' = IF stability_code = 0 THEN "true" ELSE "false"
          /\ fs' = [fs EXCEPT ![CellDir(i)] = [@ EXCEPT
                       !.stability_log = IF stability_code = 0 THEN "pass" ELSE "fail",
                       !.written = @ \cup {"stability.log"}]]
    /\ inv' = [inv EXCEPT ![i].stability = @ + 1]
    /\ pc' = "record"
    /\ UNCHANGED <<manifest, runLimit, recordings, args, runNo, i, out, results,
                   failures, exitCode,
                   toolVars>>

(* load_json: None for a missing file, the document for a complete one;    *)
(* json.load raises on a partial one                                       *)
load_rt60(d) ==
    IF fs[d].rt60_json = "good"
    THEN [present |-> TRUE, analysis_notes |-> <<>>, rt60_seconds |-> fs[d].rt60]
    ELSE NoDoc

RecordStep ==
    /\ pc = "record"
    /\ LET d        == CellDir(i)
           analysed == stability_ok # "none"
       IN  IF analysed /\ (fs[d].rt60_json = "partial" \/ fs[d].freq_json = "partial")
           THEN /\ pc' = "crashed"
                /\ exitCode' = 1
                /\ UNCHANGED <<results, i>>
           ELSE LET rt60_data == IF analysed THEN load_rt60(d) ELSE NoDoc
                    row == [preset         |-> Grid[i][1],
                            drift          |-> Grid[i][2],
                            chaosIntensity |-> Grid[i][3],
                            rt60_seconds   |-> rt60_data.rt60_seconds,
                            flatness       |-> analysed /\ fs[d].freq_json = "good",
                            stability_ok   |-> stability_ok,
                            runaway        |-> detect_runaway(rt60_data, Duration),
                            output_dir     |-> d]
                IN  /\ results' = Append(results, row)
                    /\ i' = i + 1
                    /\ pc' = IF i = NCells THEN "summary" ELSE "capture"
                    /\ exitCode' = exitCode
    /\ UNCHANGED <<manifest, runLimit, recordings, args, runNo, fs, out, failures,
                   stability_ok, inv,
                   toolVars>>

(* the summary object written to sweep_summary.json *)
Summary ==
    [runs_total         |-> Len(results),
     failures           |-> failures,
     runaway_count      |-> Cardinality({j \in DOMAIN results : results[j].runaway}),
     stability_failures |-> Cardinality({j \in DOMAIN results :
                                            results[j].stability_ok = "false"})]

(* sweep_summary.json, sweep_summary.csv, sweep_report.md, then the exit code *)
SummaryStep ==
    /\ pc = "summary"
    /\ out' = out \cup {"sweep_summary.json", "sweep_summary.csv", "sweep_report.md"}
    /\ exitCode' = IF failures > 0 /\ args.strict THEN 1 ELSE 0
    /\ pc' = "done"
    /\ UNCHANGED <<manifest, runLimit, recordings, args, runNo, i, fs, results,
                   failures, stability_ok, inv,
                   toolVars>>

(* The orchestrator is interrupted while it waits for a tool, and the tool *)
(* stops with it.  The tool may leave its output created but incomplete;   *)
(* the capture tool may have got to dry.wav only.                          *)
Interrupt ==
    /\ pc \in {"capture", "rt60", "freq", "stability"}
    /\ pc' = "interrupted"
    /\ exitCode' = 130
    /\ LET d   == CellDir(i)
           cur == Dir(d)
       IN  \/ /\ pc = "capture" /\ capture_needed(d)
              /\ inv' = [inv EXCEPT ![i] = [@ EXCEPT !.reached = TRUE,
                            !.had_wavs = Exists(cur.dry) /\ Exists(cur.wet),
                            !.capture = @ + 1]]
              /\ \/ fs' = (d :> [cur EXCEPT !.written = @ \cup {"capture.log"}]) @@ fs
                 \/ fs' = (d :> [cur EXCEPT !.dry = "partial",
                            !.written = @ \cup {"dry.wav", "capture.log"}]) @@ fs
                 \/ fs' = (d :> [cur EXCEPT !.dry = "partial", !.wet = "partial",
                            !.written = @ \cup {"dry.wav", "wet.wav", "capture.log"}]) @@ fs
           \/ /\ pc = "rt60" /\ rt60_needed(d)
              /\ inv' = [inv EXCEPT ![i] = [@ EXCEPT !.rt60_decided = TRUE,
                            !.had_rt60 = Exists(cur.rt60_json), !.rt60 = @ + 1]]
              /\ \/ fs' = [fs EXCEPT ![d].written = @ \cup {"rt60_analysis.log"}]
                 \/ fs' = [fs EXCEPT ![d] = [@ EXCEPT !.rt60_json = "partial",
                            !.rt60 = Null, !.nondecay = FALSE,
                            !.written = @ \cup {"rt60_metrics.json", "rt60_analysis.log"}]]
           \/ /\ pc = "freq" /\ freq_needed(d)
              /\ inv' = [inv EXCEPT ![i] = [@ EXCEPT !.freq_decided = TRUE,
                            !.had_freq = Exists(cur.freq_json), !.freq = @ + 1]]
              /\ \/ fs' = [fs EXCEPT ![d].written = @ \cup {"freq_analysis.log"}]
                 \/ fs' = [fs EXCEPT ![d] = [@ EXCEPT !.freq_json = "partial",
                            !.written = @ \cup {"freq_metrics.json", "freq_analysis.log"}]]
           \/ /\ pc = "stability"
              /\ inv' = [inv EXCEPT ![i].stability = @ + 1]
              /\ fs' = [fs EXCEPT ![d] = [@ EXCEPT !.stability_log = "fail",
                            !.written = @ \cup {"stability.log"}]]
    /\ UNCHANGED <<manifest, runLimit, recordings, args, runNo, i, out, results,
                   failures, stability_ok,
                   toolVars>>

SweepInit(sweeps) ==
    /\ \E s \in sweeps : /\ manifest = s.manifest
                         /\ runLimit = s.runs
                         /\ recordings = s.recordings
    /\ args = [force |-> FALSE, strict |-> FALSE, no_analysis |-> FALSE]
    /\ runNo = 0
    /\ pc = "idle"
    /\ i = 1
    /\ fs = << >>
    /\ out = {}
    /\ results = <<>>
    /\ failures = 0
    /\ stability_ok = "none"
    /\ exitCode = Null
    /\ inv = <<>>

InitSweep(sweeps) ==
    /\ SweepInit(sweeps)
    /\ cmp = NotRun
    /\ chk = NotRun
    /\ est = NotRun
    /\ val = NotRun
    /\ spa = NotRun
    /\ ldr = NotRun

Init == InitSweep(Sweeps)

Next ==
    \/ \E force, strict, no_analysis, tools_found \in BOOLEAN :
          StartRun(force, strict, no_analysis, tools_found)
    \/ CaptureStep
    \/ MetadataStep
    \/ Rt60Step
    \/ FreqStep
    \/ StabilityStep
    \/ RecordStep
    \/ SummaryStep
    \/ Interrupt

Spec == Init /\ [][Next]_vars

(* Sweeps whose drift values are drawn from a set that holds values        *)
(* closer than the four decimals of a directory label, out-of-range        *)
(* values and repeats: two cells each, swept once.                         *)
DriftInputs == {0 - 50000, 0, 1, 12341, 12344, 150000}

DirSweeps ==
    { [manifest |-> [presets |-> <<<<7, 7>>>>, drift |-> <<a, b>>, chaos |-> <<50000>>],
       runs |-> 1,
       recordings |-> {[rt60 |-> 10, nondecay |-> FALSE]}] : a, b \in DriftInputs }

InitDirs == InitSweep(DirSweeps)

SpecDirs == InitDirs /\ [][Next]_vars

(* ================================================================== *)
(* Properties                                                          *)
(* ================================================================== *)
Cells == DOMAIN inv

(* the current run got past argument validation *)
GridStarted == "sweep_manifest.json" \in out

(* main() returned or raised (an interrupted run did neither) *)
Terminated == pc \in {"done", "returned", "crashed"}

(* cell k has its result row *)
Recorded(k) == k \in Cells /\ k < i

(* captured, analysed and stable *)
Complete(dir) ==
    /\ dir.dry = "good" /\ dir.wet = "good"
    /\ dir.rt60_json = "good" /\ dir.freq_json = "good"
    /\ dir.stability_log = "pass"

RECURSIVE SumOver(_, _)
SumOver(f, n) == IF n = 0 THEN 0 ELSE f[n] + SumOver(f, n - 1)

Invocations(step) == SumOver([k \in Cells |-> inv[k][step]], Len(inv))

(* C1: every run that starts the grid terminates having written            *)
(* sweep_summary.json and sweep_report.md, whatever failed and whether or  *)
(* not --strict is given.                                                  *)
C1_SummaryAlwaysWritten ==
    (Terminated /\ GridStarted) =>
        {"sweep_summary.json", "sweep_report.md"} \subseteq out

(* C2: once the grid has started, the exit code is 0 without --strict      *)
(* however many capture or analysis invocations failed, and with --strict  *)
(* it is non-zero iff at least one capture or analysis invocation failed   *)
(* (failures counts the failed capture, RT60 and frequency invocations).   *)
C2_ExitCodeOnlyUnderStrict ==
    (Terminated /\ GridStarted) =>
        IF args.strict THEN (exitCode # 0) <=> (failures > 0)
                       ELSE exitCode = 0

(* C3: for every cell the sweep gets to, the capture tool is invoked       *)
(* (once) iff --force is given or dry.wav and wet.wav do not both exist;   *)
(* otherwise the cell goes on with zero capture invocations.               *)
C3_CaptureIffNeeded ==
    \A k \in Cells :
        inv[k].reached =>
            inv[k].capture = IF args.force \/ ~inv[k].had_wavs THEN 1 ELSE 0

C3_Witness ==
    /\ pc = "done" /\ ~args.force
    /\ \E k \in Cells : inv[k].had_wavs /\ inv[k].capture = 0
                        /\ "metadata.json" \in Dir(CellDir(k)).written

(* C4 as claimed: with --force off, analysis enabled and an empty output   *)
(* directory, a completed sweep has issued one capture and one analysis    *)
(* of each kind per cell, whether or not the captures succeeded.           *)
C4_Scenario == runNo = 1 /\ GridStarted /\ ~args.force /\ ~args.no_analysis

C4_OnePerCellRegardless ==
    (C4_Scenario /\ pc = "done") =>
        \A k \in Cells : /\ inv[k].capture = 1
                         /\ inv[k].rt60 = 1 /\ inv[k].freq = 1
                         /\ inv[k].stability = 1

(* C4 amended: in that sweep no tool is invoked twice for a cell, the      *)
(* analyzers are invoked only for a cell whose wet.wav exists after the    *)
(* capture step, a recorded cell that found no WAV pair was captured once  *)
(* and, if wet.wav then existed and no metrics were found, analysed once   *)
(* by each analyzer and otherwise by none; a sweep that reaches its        *)
(* summary with every cell having found an empty directory has issued N    *)
(* captures, and as many analyses of each kind as captures left wet.wav.   *)
C4_CountsFollowWav ==
    C4_Scenario =>
        /\ \A k \in Cells :
              /\ inv[k].capture <= 1 /\ inv[k].rt60 <= 1
              /\ inv[k].freq <= 1 /\ inv[k].stability <= 1
              /\ (inv[k].rt60 + inv[k].freq + inv[k].stability > 0) => inv[k].wet_seen
              /\ (Recorded(k) /\ ~inv[k].had_wavs) => inv[k].capture = 1
              /\ (Recorded(k) /\ ~inv[k].wet_seen) =>
                    inv[k].rt60 + inv[k].freq + inv[k].stability = 0
              /\ (Recorded(k) /\ inv[k].wet_seen /\ ~inv[k].had_rt60 /\ ~inv[k].had_freq) =>
                    inv[k].rt60 = 1 /\ inv[k].freq = 1 /\ inv[k].stability = 1
        /\ (pc = "done" /\ \A k \in Cells :
                ~inv[k].had_wavs /\ ~inv[k].had_rt60 /\ ~inv[k].had_freq) =>
              LET wavs == Cardinality({k \in Cells : inv[k].wet_seen})
              IN  /\ Invocations("capture") = NCells
                  /\ Invocations("rt60") = wavs
                  /\ Invocations("freq") = wavs
                  /\ Invocations("stability") = wavs

C4_Witness ==
    /\ C4_Scenario /\ pc = "done" /\ NCells = 4
    /\ Invocations("capture") = 4
    /\ Invocations("rt60") = 3 /\ Invocations("stability") = 3
    /\ \E k \in Cells : ~inv[k].wet_seen

(* C5 as claimed: without --force each of the three analyzers is invoked   *)
(* for a cell only if its output does not exist yet, so a run over a       *)
(* fully analysed cell invokes none of them.                               *)
C5_AllThreeSkipped ==
    ~args.force =>
        \A k \in Cells :
            /\ inv[k].rt60 > 0 => ~inv[k].had_rt60
            /\ inv[k].freq > 0 => ~inv[k].had_freq
            /\ inv[k].stability > 0 => inv[k].pre.stability_log = "absent"
            /\ Complete(inv[k].pre) =>
                  inv[k].rt60 = 0 /\ inv[k].freq = 0 /\ inv[k].stability = 0

(* C5 amended: without --force the RT60 and the frequency analyzer are     *)
(* invoked for a cell iff their output file does not exist yet; the        *)
(* stability check is never skipped: it is invoked once for every analysed *)
(* cell, so a run over a fully analysed cell issues no RT60 and no         *)
(* frequency invocation and one stability invocation.                      *)
C5_MetricsSkippedStabilityRerun ==
    ~args.force =>
        \A k \in Cells :
            /\ inv[k].rt60_decided => (inv[k].rt60 = IF inv[k].had_rt60 THEN 0 ELSE 1)
            /\ inv[k].freq_decided => (inv[k].freq = IF inv[k].had_freq THEN 0 ELSE 1)
            /\ Complete(inv[k].pre) => inv[k].rt60 = 0 /\ inv[k].freq = 0
            /\ (Recorded(k) /\ ~args.no_analysis /\ inv[k].wet_seen) => inv[k].stability = 1

C5_Witness ==
    /\ pc = "done" /\ ~args.force /\ ~args.no_analysis
    /\ \E k \in Cells : /\ Complete(inv[k].pre)
                        /\ inv[k].rt60_decided /\ inv[k].freq_decided
                        /\ inv[k].rt60 = 0 /\ inv[k].freq = 0 /\ inv[k].stability = 1

(* files of a cell directory that the current run wrote *)
WrittenIn(d) == Dir(d).written

(* C6: under --force the metrics of a result row (rt60_seconds,            *)
(* flatness_db, stability_ok) come only from WAV and metrics files         *)
(* produced by the current run, never from files an earlier run left.      *)
C6_ForceRowsAreFresh ==
    args.force =>
        \A n \in DOMAIN results :
            LET r == results[n]
                w == WrittenIn(r.output_dir)
            IN  /\ r.rt60_seconds # Null => {"wet.wav", "rt60_metrics.json"} \subseteq w
                /\ r.flatness => {"wet.wav", "freq_metrics.json"} \subseteq w
                /\ r.stability_ok # "none" => "wet.wav" \in w

(* what a run can change in a cell directory besides metadata.json and     *)
(* stability.log                                                           *)
CellData(dir) == [dry |-> dir.dry, wet |-> dir.wet, rt60_json |-> dir.rt60_json,
                  freq_json |-> dir.freq_json, rt60 |-> dir.rt60,
                  nondecay |-> dir.nondecay]

(* C7 as claimed: once a cell is captured and all its analyses have        *)
(* succeeded, a later run without --force writes no file of the cell       *)
(* directory.                                                              *)
C7_NothingRewritten ==
    ~args.force =>
        \A k \in Cells :
            Complete(inv[k].pre) => WrittenIn(CellDir(k)) = {}

(* C7 amended: such a run leaves dry.wav, wet.wav, rt60_metrics.json,      *)
(* freq_metrics.json, capture.log, rt60_analysis.log and freq_analysis.log *)
(* unchanged; it rewrites metadata.json, and stability.log when analysis   *)
(* is enabled.                                                             *)
C7_DataFilesUnchanged ==
    ~args.force =>
        \A k \in Cells :
            Complete(inv[k].pre) =>
                /\ WrittenIn(CellDir(k)) \subseteq {"metadata.json", "stability.log"}
                /\ CellData(Dir(CellDir(k))) = CellData(inv[k].pre)
                /\ Recorded(k) =>
                      WrittenIn(CellDir(k)) =
                          IF args.no_analysis THEN {"metadata.json"}
                          ELSE {"metadata.json", "stability.log"}

C7_Witness ==
    /\ pc = "done" /\ ~args.force /\ runNo = 2
    /\ \E k \in Cells : /\ Complete(inv[k].pre)
                        /\ WrittenIn(CellDir(k)) = {"metadata.json", "stability.log"}

(* C8: after an interruption that left a step's output created but         *)
(* incomplete, the next run without --force invokes that step again.       *)
C8_PartialOutputRedone ==
    ~args.force =>
        \A k \in Cells :
            /\ (inv[k].reached /\ "partial" \in {inv[k].pre.dry, inv[k].pre.wet})
                  => inv[k].capture = 1
            /\ (inv[k].rt60_decided /\ inv[k].pre.rt60_json = "partial")
                  => inv[k].rt60 = 1
            /\ (inv[k].freq_decided /\ inv[k].pre.freq_json = "partial")
                  => inv[k].freq = 1

(* C9: a recorded cell is flagged runaway iff its RT60 is at least 90% of  *)
(* the capture duration or the RT60 tool noted for that cell that the      *)
(* signal does not decay within the recording.                             *)
C9_RunawayIffLongOrNonDecay ==
    \A n \in DOMAIN results :
        LET r == results[n]
            note == /\ r.stability_ok # "none"
                    /\ Dir(r.output_dir).rt60_json = "good"
                    /\ Dir(r.output_dir).nondecay
        IN  r.runaway <=>
               \/ r.rt60_seconds # Null /\ 10 * r.rt60_seconds >= 9 * Duration
               \/ note

(* C10: two distinct grid cells (preset, drift, chaos) never share an      *)
(* output directory.                                                       *)
C10_CellsOwnTheirDirectory ==
    \A k1, k2 \in Cells :
        (inv[k1].reached /\ inv[k2].reached /\ Grid[k1] # Grid[k2])
            => CellDir(k1) # CellDir(k2)

(* ---- C11 ---- *)
SummaryWritten == "sweep_summary.json" \in out

(* the (drift, chaos) pairs of one preset, in the order of the command line *)
ParamPairs(m) ==
    LET D == ClampAll(parse_float_list(m.drift))
        C == ClampAll(parse_float_list(m.chaos))
    IN  [k \in 1 .. Len(D) * Len(C) |->
            <<D[((k - 1) \div Len(C)) + 1], C[((k - 1) % Len(C)) + 1]>>]

(* C11: a written sweep summary holds exactly one row per grid cell; the   *)
(* rows are in ascending preset order and, within a preset, in the order   *)
(* in which the drift and chaos values were given; the order is a          *)
(* function of the manifest alone, whatever was captured, re-used or       *)
(* failed.                                                                 *)
C11_SummaryRowsInManifestOrder ==
    SummaryWritten =>
        LET P     == parse_index_list(manifest.presets)
            pairs == ParamPairs(manifest)
            n     == Len(pairs)
        IN  /\ Len(results) = Len(P) * n
            /\ \A a \in 1 .. Len(P) - 1 : P[a] < P[a + 1]
            /\ \A a \in 1 .. Len(P), b \in 1 .. n :
                   LET row == results[(a - 1) * n + b]
                   IN  /\ row.preset = P[a]
                       /\ <<row.drift, row.chaosIntensity>> = pairs[b]

(* a summary of a four-cell grid whose presets were given out of order,    *)
(* with one cell whose capture failed and one that was analysed            *)
C11_Witness ==
    /\ SummaryWritten
    /\ Len(results) = 4
    /\ manifest.presets[1][1] > manifest.presets[2][1]
    /\ failures > 0
    /\ \E k \in 1 .. 4 : inv[k].capture = 1 /\ results[k].stability_ok = "none"
    /\ \E k \in 1 .. 4 : results[k].stability_ok # "none"

(* ================================================================== *)
(* Baseline comparator (tools/compare_baseline.py)                     *)
(* ================================================================== *)
(* Units: RT60 in milliseconds, flatness and ILD in 0.1 dB, ITD in     *)
(* 0.1 ms, IACC in 0.01, waveform samples (after the division by       *)
(* 32768 and the channel average) in 0.01.  Metric values are kept     *)
(* off the exact thresholds, where the binary doubles decide.          *)

(* --threshold 0.05, in percent *)
ThresholdPct == 5
(* DEFAULT_SPATIAL_ITD_MS 0.2, DEFAULT_SPATIAL_ILD_DB 1.0, DEFAULT_SPATIAL_IACC_DELTA 0.05 *)
SpatialItdThreshold == 2
SpatialIldThreshold == 10
SpatialIaccThreshold == 5
(* range(37) *)
NumPresets == 37

Abs(x) == IF x < 0 THEN 0 - x ELSE x

(* A metrics file is "absent", "partial" (not parseable: json.load raises) *)
(* or "good"; a key that is missing or null is Null.                       *)
NoRt60      == [file |-> "absent",  top |-> Null, bb |-> Null]
PartialRt60 == [file |-> "partial", top |-> Null, bb |-> Null]
Rt60Doc(top, bb) == [file |-> "good", top |-> top, bb |-> bb]

NoFreq      == [file |-> "absent",  bb |-> Null, overall |-> Null]
FreqDoc(bb, overall) == [file |-> "good", bb |-> bb, overall |-> overall]

NoSpatial   == [file |-> "absent", itd |-> Null, ild |-> Null, iacc |-> Null]
SpatialDoc(itd, ild, iacc) == [file |-> "good", itd |-> itd, ild |-> ild, iacc |-> iacc]

(* wet.wav: "absent", "corrupt" (wavfile.read raises) or "good" with its   *)
(* sample rate in kHz and its samples                                      *)
NoWav      == [file |-> "absent",  sr |-> 0, samples |-> <<>>]
CorruptWav == [file |-> "corrupt", sr |-> 0, samples |-> <<>>]
Wav(sr, samples) == [file |-> "good", sr |-> sr, samples |-> samples]

AbsentPreset == [exists |-> FALSE, rt60 |-> NoRt60, freq |-> NoFreq,
                 spatial |-> NoSpatial, wet |-> NoWav]
PresetDir(rt60, freq, spatial, wet) ==
    [exists |-> TRUE, rt60 |-> rt60, freq |-> freq, spatial |-> spatial, wet |-> wet]

(* load_metrics: a family is loaded when its file exists; json.load raises *)
(* on a file that is not complete JSON                                     *)
load_metrics_raises(preset_dir) ==
    "partial" \in {preset_dir.rt60.file, preset_dir.freq.file, preset_dir.spatial.file}

Loaded(doc) == doc.file = "good"

(* a.get('rt60_seconds') or a.get('broadband', {}).get('rt60_seconds') *)
Rt60Of(doc) == IF doc.top # Null /\ doc.top # 0 THEN doc.top ELSE doc.bb

(* compare_rt60: [raised, pass, msg]; the division raises on a baseline of 0 *)
compare_rt60(baseline, current) ==
    LET b == Rt60Of(baseline)
        c == Rt60Of(current)
    IN  IF b = Null \/ c = Null
        THEN [raised |-> FALSE, pass |-> FALSE, msg |-> "RT60: Missing RT60 data"]
        ELSE IF b = 0
        THEN [raised |-> TRUE, pass |-> FALSE, msg |-> "ZeroDivisionError"]
        ELSE IF b > 0 /\ Abs(b - c) * 100 > ThresholdPct * b
        THEN [raised |-> FALSE, pass |-> FALSE, msg |-> "RT60: RT60 changed"]
        ELSE [raised |-> FALSE, pass |-> TRUE, msg |-> "RT60 within threshold"]

(* broadband.flatness_db, else overall.flatness_std_db *)
FlatnessOf(doc) == IF doc.bb # Null THEN doc.bb ELSE doc.overall

(* compare_frequency_response: threshold * 10 dB *)
compare_frequency_response(baseline, current) ==
    LET b == FlatnessOf(baseline)
        c == FlatnessOf(current)
    IN  IF b = Null \/ c = Null
        THEN [pass |-> FALSE, msg |-> "Frequency: Missing frequency response data"]
        ELSE IF Abs(b - c) > ThresholdPct
        THEN [pass |-> FALSE, msg |-> "Frequency: Flatness changed"]
        ELSE [pass |-> TRUE, msg |-> "Frequency response within threshold"]

(* compare_spatial_metrics: a cue is compared when both sides have it *)
CueIssue(b, c, limit, msg) ==
    IF b # Null /\ c # Null /\ Abs(b - c) > limit THEN <<msg>> ELSE <<>>

CueMetric(b, c, key) == IF b # Null /\ c # Null THEN {key} ELSE {}

compare_spatial_metrics_first_cue_only(baseline, current) ==
    LET itd    == CueIssue(baseline.itd, current.itd, SpatialItdThreshold, "Spatial: ITD changed")
        ild    == CueIssue(baseline.ild, current.ild, SpatialIldThreshold, "Spatial: ILD changed")
        iacc   == CueIssue(baseline.iacc, current.iacc, SpatialIaccThreshold, "Spatial: IACC changed")
        issues == IF itd # <<>> THEN itd ELSE IF ild # <<>> THEN ild ELSE iacc
    IN  [pass    |-> Len(issues) = 0,
         issues  |-> issues,
         metrics |-> CueMetric(baseline.itd, current.itd, "itd_delta_ms")
                     \cup CueMetric(baseline.ild, current.ild, "ild_db_delta")
                     \cup CueMetric(baseline.iacc, current.iacc, "iacc_delta")]

compare_spatial_metrics(baseline, current) ==
    LET issues == CueIssue(baseline.itd, current.itd, SpatialItdThreshold, "Spatial: ITD changed")
                  \o CueIssue(baseline.ild, current.ild, SpatialIldThreshold, "Spatial: ILD changed")
                  \o CueIssue(baseline.iacc, current.iacc, SpatialIaccThreshold, "Spatial: IACC changed")
    IN  [pass    |-> Len(issues) = 0,
         issues  |-> issues,
         metrics |-> CueMetric(baseline.itd, current.itd, "itd_delta_ms")
                     \cup CueMetric(baseline.ild, current.ild, "ild_db_delta")
                     \cup CueMetric(baseline.iacc, current.iacc, "iacc_delta")]

Min(a, b) == IF a < b THEN a ELSE b

(* compare_waveforms: both files cut to the shorter length; the Pearson    *)
(* correlation r = C / sqrt(A * B) with C = n*Sum(ab) - Sum(a)*Sum(b),     *)
(* A = n*Sum(aa) - Sum(a)^2, B likewise; numpy gives nan when A or B is 0. *)
(* correlation is "nan", "one" (r = 1), "low" (r < 0.95) or "high".        *)
(* a variant in which differing sample rates count as a failed comparison *)
compare_waveforms_mismatch_fails(baseline_wav, current_wav) ==
    IF baseline_wav.sr # current_wav.sr
    THEN [error |-> FALSE, correlation |-> "low", rms_exceeds |-> FALSE]
    ELSE LET n  == Min(Len(baseline_wav.samples), Len(current_wav.samples))
             a  == SubSeq(baseline_wav.samples, 1, n)
             b  == SubSeq(current_wav.samples, 1, n)
             Sa == SumOver(a, n)
             Sb == SumOver(b, n)
             C  == n * SumOver([k \in 1 .. n |-> a[k] * b[k]], n) - Sa * Sb
             A  == n * SumOver([k \in 1 .. n |-> a[k] * a[k]], n) - Sa * Sa
             B  == n * SumOver([k \in 1 .. n |-> b[k] * b[k]], n) - Sb * Sb
             D2 == SumOver([k \in 1 .. n |-> (a[k] - b[k]) * (a[k] - b[k])], n)
         IN  [error       |-> FALSE,
              correlation |-> IF A = 0 \/ B = 0 THEN "nan"
                              ELSE IF C > 0 /\ C * C = A * B THEN "one"
                              ELSE IF C < 0 \/ C * C * 400 < 361 * A * B THEN "low"
                              ELSE "high",
              rms_exceeds |-> D2 > ThresholdPct * ThresholdPct * n]

compare_waveforms(baseline_wav, current_wav) ==
    IF baseline_wav.sr # current_wav.sr
    THEN [error |-> TRUE, correlation |-> "none", rms_exceeds |-> FALSE]
    ELSE LET n  == Min(Len(baseline_wav.samples), Len(current_wav.samples))
             a  == SubSeq(baseline_wav.samples, 1, n)
             b  == SubSeq(current_wav.samples, 1, n)
             Sa == SumOver(a, n)
             Sb == SumOver(b, n)
             C  == n * SumOver([k \in 1 .. n |-> a[k] * b[k]], n) - Sa * Sb
             A  == n * SumOver([k \in 1 .. n |-> a[k] * a[k]], n) - Sa * Sa
             B  == n * SumOver([k \in 1 .. n |-> b[k] * b[k]], n) - Sb * Sb
             D2 == SumOver([k \in 1 .. n |-> (a[k] - b[k]) * (a[k] - b[k])], n)
         IN  [error       |-> FALSE,
              correlation |-> IF A = 0 \/ B = 0 THEN "nan"
                              ELSE IF C > 0 /\ C * C = A * B THEN "one"
                              ELSE IF C < 0 \/ C * C * 400 < 361 * A * B THEN "low"
                              ELSE "high",
              rms_exceeds |-> D2 > ThresholdPct * ThresholdPct * n]

(* compare_preset: [raised, result]; result is                              *)
(* [preset_index, pass, issues, metrics, correlation], metrics being the    *)
(* keys of result['metrics'] and correlation metrics.waveform.correlation   *)
(* ("none" when no waveform metrics were stored)                            *)
PresetResult(idx, pass, issues, metrics, correlation) ==
    [raised |-> FALSE,
     result |-> [preset_index |-> idx, pass |-> pass, issues |-> issues,
                 metrics |-> metrics, correlation |-> correlation]]

Raised(idx) ==
    [raised |-> TRUE,
     result |-> [preset_index |-> idx, pass |-> FALSE, issues |-> <<>>,
                 metrics |-> {}, correlation |-> "none"]]

missing_reason_baseline_only(baseline_preset, current_preset) ==
    IF ~baseline_preset.exists THEN <<"Baseline preset missing">>
    ELSE <<>>

(* the two directory tests at the head of compare_preset *)
missing_reason(baseline_preset, current_preset) ==
    IF ~baseline_preset.exists THEN <<"Baseline preset missing">>
    ELSE IF ~current_preset.exists THEN <<"Current preset missing">>
    ELSE <<>>

compare_preset(preset_idx, baseline_preset, current_preset) ==
    LET missing == missing_reason(baseline_preset, current_preset)
        bm      == baseline_preset
        cm      == current_preset
        rt60_on == Loaded(bm.rt60) /\ Loaded(cm.rt60)
        rt60    == compare_rt60(bm.rt60, cm.rt60)
        freq_on == Loaded(bm.freq) /\ Loaded(cm.freq)
        freq    == compare_frequency_response(bm.freq, cm.freq)
        spat_on == Loaded(bm.spatial) /\ Loaded(cm.spatial)
        spat    == compare_spatial_metrics(bm.spatial, cm.spatial)
        wav_on  == bm.wet.file # "absent" /\ cm.wet.file # "absent"
        wave    == compare_waveforms(bm.wet, cm.wet)
        wave_ok == wav_on /\ ~wave.error
        corr_low == wave_ok /\ wave.correlation = "low"
        rms_high == wave_ok /\ wave.rms_exceeds
    IN  IF missing # <<>>
        THEN PresetResult(preset_idx, FALSE, missing, {}, "none")
        ELSE IF load_metrics_raises(bm) \/ load_metrics_raises(cm)
        THEN Raised(preset_idx)
        ELSE IF rt60_on /\ rt60.raised
        THEN Raised(preset_idx)
        ELSE IF wav_on /\ "corrupt" \in {bm.wet.file, cm.wet.file}
        THEN Raised(preset_idx)
        ELSE PresetResult(preset_idx,
                 /\ ~(rt60_on /\ ~rt60.pass)
                 /\ ~(freq_on /\ ~freq.pass)
                 /\ ~(spat_on /\ ~spat.pass)
                 /\ ~corr_low
                 /\ ~rms_high,
                 (IF rt60_on /\ ~rt60.pass THEN <<rt60.msg>> ELSE <<>>)
                 \o (IF freq_on /\ ~freq.pass THEN <<freq.msg>> ELSE <<>>)
                 \o (IF spat_on /\ ~spat.pass THEN spat.issues ELSE <<>>)
                 \o (IF corr_low THEN <<"Waveform correlation low">> ELSE <<>>)
                 \o (IF rms_high THEN <<"Waveform RMS difference">> ELSE <<>>),
                 (IF rt60_on THEN {"rt60_diff_pct"} ELSE {})
                 \cup (IF freq_on THEN {"freq_flatness_diff_db"} ELSE {})
                 \cup (IF spat_on /\ spat.metrics # {} THEN {"spatial"} ELSE {})
                 \cup (IF wave_ok THEN {"waveform"} ELSE {}),
                 IF wave_ok THEN wave.correlation ELSE "none")

(* ---- one run of main() ---- *)
(* cmp.args: the two directories exist or not, --preset (<<>> when not     *)
(* given), --output given or not.  cmp.dirs: the preset directories of     *)
(* both sides: those of index Probe and those of every other index.        *)
Probe == 5

preset_indices_from_one(cargs) ==
    IF cargs.preset # <<>> THEN cargs.preset ELSE [j \in 1 .. NumPresets - 1 |-> j]

preset_indices(cargs) ==
    IF cargs.preset # <<>> THEN cargs.preset ELSE [j \in 1 .. NumPresets |-> j - 1]

BaselinePreset(dirs, idx) == IF idx = Probe THEN dirs.b5 ELSE dirs.bo
CurrentPreset(dirs, idx)  == IF idx = Probe THEN dirs.c5 ELSE dirs.co

NoReport == [written |-> FALSE, total |-> 0, passed |-> 0, failed |-> 0, results |-> <<>>]

CmpStart(cargs, dirs) ==
    [pc |-> "start", args |-> cargs, dirs |-> dirs, k |-> 1, results |-> <<>>,
     pass_count |-> 0, fail_count |-> 0, report |-> NoReport, exit |-> Null]

(* lines 313-319: the two directory checks *)
CmpValidate ==
    /\ cmp.pc = "start"
    /\ IF ~cmp.args.baseline_exists \/ ~cmp.args.current_exists
       THEN cmp' = [cmp EXCEPT !.pc = "returned", !.exit = 1]
       ELSE cmp' = [cmp EXCEPT !.pc = "loop"]
    /\ UNCHANGED <<sweepVars, chk, est, val, spa, ldr>>

(* one iteration of the loop at 344-363 *)
CmpPreset ==
    /\ cmp.pc = "loop"
    /\ LET idx == preset_indices(cmp.args)[cmp.k]
           r   == compare_preset(idx, BaselinePreset(cmp.dirs, idx),
                                 CurrentPreset(cmp.dirs, idx))
       IN  IF r.raised
           THEN cmp' = [cmp EXCEPT !.pc = "crashed", !.exit = 1]
           ELSE cmp' = [cmp EXCEPT
                          !.results = Append(@, r.result),
                          !.pass_count = IF r.result.pass THEN @ + 1 ELSE @,
                          !.fail_count = IF r.result.pass THEN @ ELSE @ + 1,
                          !.k = @ + 1,
                          !.pc = IF cmp.k = Len(preset_indices(cmp.args))
                                 THEN "report" ELSE "loop"]
    /\ UNCHANGED <<sweepVars, chk, est, val, spa, ldr>>

(* lines 398-423: the report, if asked for, and the exit code *)
CmpReport ==
    /\ cmp.pc = "report"
    /\ cmp' = [cmp EXCEPT
                 !.report = IF cmp.args.output
                            THEN [written |-> TRUE, total |-> Len(cmp.results),
                                  passed |-> cmp.pass_count, failed |-> cmp.fail_count,
                                  results |-> cmp.results]
                            ELSE @,
                 !.exit = IF cmp.fail_count > 0 THEN 1 ELSE 0,
                 !.pc = "done"]
    /\ UNCHANGED <<sweepVars, chk, est, val, spa, ldr>>

(* ---- the directories explored ---- *)
(* RT60 documents as rt60_analysis_robust.py writes them (broadband value, *)
(* null when no tier found a crossing), one with a top-level value, one    *)
(* with a zero value, an incomplete file and no file; 2100 and 35 differ   *)
(* from the reference values 2000 and 30 by exactly the limit              *)
Rt60Docs == { NoRt60, PartialRt60, Rt60Doc(Null, Null), Rt60Doc(Null, 2000),
              Rt60Doc(Null, 2100), Rt60Doc(Null, 2400), Rt60Doc(2000, Null),
              Rt60Doc(Null, 0) }

FreqDocs == { NoFreq, FreqDoc(30, Null), FreqDoc(35, Null), FreqDoc(40, Null),
              FreqDoc(Null, 30), FreqDoc(Null, Null) }

SpatialDocs == { NoSpatial, SpatialDoc(0, 0, 90), SpatialDoc(1, 0, 90),
                 SpatialDoc(5, 20, 60), SpatialDoc(Null, 20, 90) }

(* silence, a ramp, a near copy, a louder copy, the reversed ramp, the     *)
(* ramp at another sample rate, a shorter recording                        *)
Wavs == { NoWav, CorruptWav, Wav(48, <<0, 0, 0>>), Wav(48, <<0, 10, 20>>),
          Wav(48, <<0, 10, 21>>), Wav(48, <<0, 30, 60>>), Wav(48, <<20, 10, 0>>),
          Wav(44, <<0, 10, 20>>), Wav(48, <<0, 10>>) }

RefPreset == PresetDir(Rt60Doc(Null, 2000), FreqDoc(30, Null), SpatialDoc(0, 0, 90),
                       Wav(48, <<0, 10, 20>>))

ChangedPreset == PresetDir(Rt60Doc(Null, 2400), FreqDoc(40, Null), SpatialDoc(5, 20, 60),
                           Wav(48, <<20, 10, 0>>))

BarePreset == PresetDir(NoRt60, NoFreq, NoSpatial, NoWav)

(* the reference preset with one of its files replaced *)
PresetDirs ==
    {AbsentPreset, ChangedPreset, BarePreset}
    \cup {[RefPreset EXCEPT !.rt60 = d]    : d \in Rt60Docs}
    \cup {[RefPreset EXCEPT !.freq = d]    : d \in FreqDocs}
    \cup {[RefPreset EXCEPT !.spatial = d] : d \in SpatialDocs}
    \cup {[RefPreset EXCEPT !.wet = d]     : d \in Wavs}

OtherPresets == { [bo |-> RefPreset, co |-> RefPreset],
                  [bo |-> RefPreset, co |-> ChangedPreset],
                  [bo |-> RefPreset, co |-> AbsentPreset] }

CmpArgs(preset, output) ==
    [baseline_exists |-> TRUE, current_exists |-> TRUE, preset |-> preset, output |-> output]

(* --preset runs over every pair of directories for the probed index; a    *)
(* run over all 37 presets gets a copy of the baseline as current set, or  *)
(* a changed or absent current preset; a run may name a missing directory  *)
CmpRuns ==
    { CmpStart(a, [b5 |-> b, c5 |-> c, bo |-> o.bo, co |-> o.co]) :
        a \in { CmpArgs(<<Probe>>, TRUE), CmpArgs(<<Probe>>, FALSE),
                CmpArgs(<<Probe, 0>>, TRUE), CmpArgs(<<Probe, Probe>>, TRUE) },
        b \in PresetDirs, c \in PresetDirs, o \in OtherPresets }
    \cup
    { CmpStart(CmpArgs(<<>>, TRUE), [b5 |-> b, c5 |-> b, bo |-> o.bo, co |-> o.co]) :
        b \in PresetDirs, o \in OtherPresets }
    \cup
    { CmpStart(CmpArgs(<<>>, TRUE), [b5 |-> RefPreset, c5 |-> c, bo |-> RefPreset, co |-> RefPreset]) :
        c \in {AbsentPreset, ChangedPreset} }
    \cup
    { CmpStart([CmpArgs(<<>>, TRUE) EXCEPT !.baseline_exists = x.b, !.current_exists = x.c],
               [b5 |-> IF x.b THEN RefPreset ELSE AbsentPreset,
                c5 |-> IF x.c THEN RefPreset ELSE AbsentPreset,
                bo |-> IF x.b THEN RefPreset ELSE AbsentPreset,
                co |-> IF x.c THEN RefPreset ELSE AbsentPreset]) :
        x \in {[b |-> FALSE, c |-> TRUE], [b |-> TRUE, c |-> FALSE], [b |-> FALSE, c |-> FALSE]} }

(* the sweep orchestrator is not run while a tool is examined *)
SweepIdle == SweepInit({[manifest |-> CellManifest, runs |-> 0, recordings |-> {}]})

(* ================================================================== *)
(* Stability checker (tools/check_audio_stability.py)                  *)
(* ================================================================== *)
(* A float32 sample is a NaN, an infinity, a subnormal (below the      *)
(* DENORMAL_THRESHOLD, positive) or a number, counted in units of      *)
(* 0.0003 of full scale; numbers other than 0 are normal.              *)
NaN    == [kind |-> "nan",  v |-> 0]
PInf   == [kind |-> "inf",  v |-> 0]
NInf   == [kind |-> "ninf", v |-> 0]
Den    == [kind |-> "den",  v |-> 0]
Num(v) == [kind |-> "num",  v |-> v]

(* IEEE addition *)
FAdd(a, b) ==
    IF a.kind = "nan" \/ b.kind = "nan" THEN NaN
    ELSE IF {a.kind, b.kind} = {"inf", "ninf"} THEN NaN
    ELSE IF "inf" \in {a.kind, b.kind} THEN PInf
    ELSE IF "ninf" \in {a.kind, b.kind} THEN NInf
    ELSE IF a.kind = "den" /\ b.kind = "den" THEN Den
    ELSE IF a.kind = "den" THEN (IF b.v = 0 THEN Den ELSE b)
    ELSE IF b.kind = "den" THEN (IF a.v = 0 THEN Den ELSE a)
    ELSE Num(a.v + b.v)

(* division by the number of channels (two); a halved subnormal is taken   *)
(* to stay a subnormal                                                     *)
FHalf(a) == IF a.kind = "num" THEN Num(a.v \div 2) ELSE a

RECURSIVE FSum(_, _)
FSum(xs, n) == IF n = 0 THEN Num(0) ELSE FAdd(FSum(xs, n - 1), xs[n])

Count(xs, kinds) == Cardinality({k \in DOMAIN xs : xs[k].kind \in kinds})

(* MAX_ALLOWED_NAN, MAX_ALLOWED_INF *)
MAX_ALLOWED_NAN == 0
MAX_ALLOWED_INF == 0
(* MAX_ALLOWED_DENORMALS_PERCENT 0.01: one sample in DenormalsPerSample *)
DenormalsPerSample == 10000
(* wave.open accepts WAVE_FORMAT_PCM only *)
WAVE_FORMAT_PCM == 1
WAVE_FORMAT_IEEE_FLOAT == 3

(* A WAV file: wFormatTag, bytes per sample, channels, the interleaved     *)
(* samples of its first frames and the number of silent frames after them  *)
WavFile(format, width, channels, data, tail) ==
    [exists |-> TRUE, format |-> format, sample_width |-> width,
     channels |-> channels, data |-> data, tail |-> tail]

MissingFile == [exists |-> FALSE, format |-> WAVE_FORMAT_PCM, sample_width |-> 2,
                channels |-> 1, data |-> <<>>, tail |-> 0]

(* load_audio_file: error (the process exits 2) or the mono samples.       *)
(* 16- and 24-bit integers are scaled to full scale; 4-byte samples are    *)
(* taken as float32 whatever they hold; two channels are averaged.         *)
load_audio_file(file) ==
    IF ~file.exists \/ file.format # WAVE_FORMAT_PCM
       \/ file.sample_width \notin {2, 3, 4}
       \/ Len(file.data) % file.channels # 0
    THEN [error |-> TRUE, samples |-> <<>>]
    ELSE [error |-> FALSE,
          samples |-> IF file.channels = 1 THEN file.data
                      ELSE [k \in 1 .. Len(file.data) \div 2 |->
                               FHalf(FAdd(file.data[2 * k - 1], file.data[2 * k]))]]

NoStats == [total_samples |-> 0, nan_count |-> 0, inf_count |-> 0,
            denormal_count |-> 0, dc |-> Num(0)]

(* analyze_audio_stability over the loaded samples and the silent tail;    *)
(* dc is the sum of the samples (the mean times total_samples)             *)
analyze_audio_stability(samples, tail) ==
    [total_samples  |-> Len(samples) + tail,
     nan_count      |-> Count(samples, {"nan"}),
     inf_count      |-> Count(samples, {"inf", "ninf"}),
     denormal_count |-> Count(samples, {"den"}),
     dc             |-> FSum(samples, Len(samples))]

(* denormal_percent > MAX_ALLOWED_DENORMALS_PERCENT *)
DenormalsExceed(stats) == stats.denormal_count * DenormalsPerSample > stats.total_samples

(* dc_offset_db > DC_OFFSET_THRESHOLD_DB: 20*log10(|mean| + 1e-10) > -60,  *)
(* that is |mean| > 0.001; a NaN mean compares false, an infinite one true *)
DcExceeds(stats) ==
    CASE stats.dc.kind = "nan" -> FALSE
      [] stats.dc.kind \in {"inf", "ninf"} -> TRUE
      [] stats.dc.kind = "den" -> FALSE
      [] OTHER -> Abs(stats.dc.v) * 3 > 10 * stats.total_samples

NanExceeds(stats) == stats.nan_count > MAX_ALLOWED_NAN
InfExceeds(stats) == stats.inf_count > MAX_ALLOWED_INF

check_stability_thresholds_first_only(stats) ==
    LET violations ==
            IF NanExceeds(stats) THEN <<"NaN detected">>
            ELSE IF InfExceeds(stats) THEN <<"Inf detected">>
            ELSE IF DenormalsExceed(stats) THEN <<"Excessive denormals">>
            ELSE IF DcExceeds(stats) THEN <<"DC offset too high">>
            ELSE <<>>
    IN  [all_passed |-> violations = <<>>, violations |-> violations]

(* check_stability_thresholds: the four tests in turn, each appending its  *)
(* violation and clearing all_passed                                       *)
check_stability_thresholds(stats) ==
    [all_passed |-> /\ ~NanExceeds(stats)
                    /\ ~InfExceeds(stats)
                    /\ ~DenormalsExceed(stats)
                    /\ ~DcExceeds(stats),
     violations |-> (IF NanExceeds(stats) THEN <<"NaN detected">> ELSE <<>>)
                    \o (IF InfExceeds(stats) THEN <<"Inf detected">> ELSE <<>>)
                    \o (IF DenormalsExceed(stats) THEN <<"Excessive denormals">> ELSE <<>>)
                    \o (IF DcExceeds(stats) THEN <<"DC offset too high">> ELSE <<>>)]

(* ---- one run of main() ---- *)
(* chk.checked: check_stability_thresholds has returned, so that there is  *)
(* a verdict and a violation list                                          *)
ChkStart(argc, file) ==
    [pc |-> "start", argc |-> argc, file |-> file, samples |-> <<>>, stats |-> NoStats,
     checked |-> FALSE, passed |-> FALSE, violations |-> <<>>, exit |-> Null]

(* lines 255-267: usage, then load_audio_file, which exits 2 on any error *)
ChkLoad ==
    /\ chk.pc = "start"
    /\ LET loaded == load_audio_file(chk.file)
       IN  IF chk.argc # 2 \/ loaded.error
           THEN chk' = [chk EXCEPT !.pc = "exited", !.exit = 2]
           ELSE chk' = [chk EXCEPT !.pc = "loaded", !.samples = loaded.samples]
    /\ UNCHANGED <<sweepVars, cmp, est, val, spa, ldr>>

(* line 270; np.max raises on a recording without samples *)
ChkAnalyze ==
    /\ chk.pc = "loaded"
    /\ IF Len(chk.samples) + chk.file.tail = 0
       THEN chk' = [chk EXCEPT !.pc = "crashed", !.exit = 1]
       ELSE chk' = [chk EXCEPT !.pc = "analyzed",
                       !.stats = analyze_audio_stability(chk.samples, chk.file.tail)]
    /\ UNCHANGED <<sweepVars, cmp, est, val, spa, ldr>>

(* lines 273-279 *)
ChkThresholds ==
    /\ chk.pc = "analyzed"
    /\ LET verdict == check_stability_thresholds(chk.stats)
       IN  chk' = [chk EXCEPT !.pc = "done", !.checked = TRUE,
                      !.passed = verdict.all_passed,
                      !.violations = verdict.violations,
                      !.exit = IF verdict.all_passed THEN 0 ELSE 1]
    /\ UNCHANGED <<sweepVars, cmp, est, val, spa, ldr>>

(* ---- the recordings explored ---- *)
FloatSamples == {NaN, PInf, NInf, Den, Num(0), Num(4), Num(0 - 4)}
PcmSamples   == {Num(0), Num(4), Num(0 - 4)}

(* the silent tail: none, or long enough to bring one subnormal under the  *)
(* allowed share                                                           *)
Tails == {0, 20000}

SeqsOf(S, n) == [1 .. n -> S]

ChkRuns ==
    { ChkStart(2, WavFile(WAVE_FORMAT_PCM, 4, 1, d, t)) :
        d \in SeqsOf(FloatSamples, 0) \cup SeqsOf(FloatSamples, 1)
              \cup SeqsOf(FloatSamples, 2) \cup SeqsOf(FloatSamples, 3),
        t \in Tails }
    \cup
    { ChkStart(2, WavFile(WAVE_FORMAT_PCM, 4, 2, d, t)) :
        d \in SeqsOf(FloatSamples, 2) \cup SeqsOf(FloatSamples, 3)
              \cup SeqsOf(FloatSamples, 4),
        t \in Tails }
    \cup
    { ChkStart(2, WavFile(WAVE_FORMAT_IEEE_FLOAT, 4, c, d, 0)) :
        c \in {1, 2}, d \in SeqsOf(FloatSamples, 2) }
    \cup
    { ChkStart(2, WavFile(WAVE_FORMAT_PCM, w, c, d, t)) :
        w \in {1, 2, 3}, c \in {1, 2}, d \in SeqsOf(PcmSamples, 2), t \in Tails }
    \cup
    { ChkStart(argc, MissingFile) : argc \in {1, 2, 3} }

(* ================================================================== *)
(* Decay estimator (tools/plugin-analyzer/python/rt60_analysis_robust.py) *)
(* ================================================================== *)
(* The recording is its energy sequence (audio ** 2), counted in units *)
(* of 1e-10, so that the 1e-10 added before the logarithm is 1.  Times *)
(* are counted in samples.  Energies are kept off the exact crossing.  *)

(* energy_cumsum[k] for the 0-based index k *)
TailEnergy(energy, k) ==
    SumOver([j \in 1 .. Len(energy) |-> IF j > k THEN energy[j] ELSE 0], Len(energy))

(* energy_db <= decay_db for decay_db = -60 or -30: the ratio of            *)
(* (energy_cumsum + 1e-10) to its peak is at most 1e-6 or 1e-3              *)
DecayRatio(decay_db) == IF decay_db = 0 - 60 THEN 1000000 ELSE 1000

Crossings(energy, decay_db) ==
    {k \in 0 .. Len(energy) - 1 :
        (TailEnergy(energy, 0) + 1) \div (TailEnergy(energy, k) + 1) >= DecayRatio(decay_db)}

SetMin(S) == CHOOSE x \in S : \A y \in S : x <= y

(* manual_rt60_calculation: None for a signal without energy or without a   *)
(* crossing, else the time of the first crossing scaled by 60 / |decay_db|  *)
manual_rt60_calculation(energy, decay_db) ==
    IF \A k \in DOMAIN energy : energy[k] < 1 THEN Null
    ELSE IF Crossings(energy, decay_db) = {} THEN Null
    ELSE SetMin(Crossings(energy, decay_db)) * (60 \div Abs(decay_db))

(* what pyroomacoustics' measure_rt60 does: raises, or returns None, NaN    *)
(* or a number                                                              *)
PraOutcome(kind, v) == [kind |-> kind, v |-> v]

(* lines 159-171: the value is kept if it is a positive number *)
TierPra(pra) ==
    IF pra.kind = "value" /\ pra.v > 0
    THEN [rt60 |-> pra.v, method |-> "pyroomacoustics"]
    ELSE [rt60 |-> Null, method |-> "manual"]

(* lines 176-180 *)
TierManual(energy) ==
    [rt60 |-> manual_rt60_calculation(energy, 0 - 60), method |-> "manual"]

TierRt30_untagged(energy) ==
    LET rt30 == manual_rt60_calculation(energy, 0 - 30)
    IN  IF rt30 # Null
        THEN [rt60 |-> rt30 * 2, method |-> "manual"]
        ELSE [rt60 |-> Null, method |-> "manual"]

(* lines 186-190: the result of the -30 dB call, doubled *)
TierRt30(energy) ==
    LET rt30 == manual_rt60_calculation(energy, 0 - 30)
    IN  IF rt30 # Null
        THEN [rt60 |-> rt30 * 2, method |-> "manual_RT30_extrapolated"]
        ELSE [rt60 |-> Null, method |-> "manual"]

(* ---- one run of main() ---- *)
(* est.calls: the tiers tried so far, each with what it gave; est.curve:    *)
(* the Schroeder curve was computed for the plot (line 193)                 *)
NoRt60Doc == [built |-> FALSE, saved |-> FALSE, rt60_seconds |-> Null,
              method |-> "none", analysis_method |-> "none", peak |-> Null]

(* analyze_signal_quality: the peak, here of the energy; np.max raises on   *)
(* a recording without samples                                              *)
RECURSIVE SeqMax(_)
SeqMax(xs) == IF Len(xs) = 1 THEN xs[1]
              ELSE LET m == SeqMax(Tail(xs)) IN IF xs[1] > m THEN xs[1] ELSE m

EstStart(file, has_pra, pra, output) ==
    [pc |-> "start", file |-> file, has_pra |-> has_pra, pra |-> pra, output |-> output,
     calls |-> <<>>, curve |-> FALSE, rt60_broadband |-> Null, method |-> "manual",
     peak |-> Null, doc |-> NoRt60Doc, exit |-> Null]

(* lines 307-309 and 125-157: the file test, wavfile.read and the signal    *)
(* quality check, which raises on a recording without samples               *)
EstLoad ==
    /\ est.pc = "start"
    /\ IF ~est.file.exists \/ ~est.file.readable \/ Len(est.file.energy) = 0
       THEN est' = [est EXCEPT !.pc = "returned", !.exit = 1]
       ELSE est' = [est EXCEPT !.peak = SeqMax(est.file.energy),
                               !.pc = IF est.has_pra THEN "pra" ELSE "manual"]
    /\ UNCHANGED <<sweepVars, cmp, chk, val, spa, ldr>>

(* lines 159-171 *)
EstPra ==
    /\ est.pc = "pra"
    /\ LET t == TierPra(est.pra)
       IN  est' = [est EXCEPT !.calls = Append(@, [tier |-> "pyroomacoustics", rt60 |-> t.rt60]),
                      !.rt60_broadband = t.rt60,
                      !.method = t.method,
                      !.pc = IF t.rt60 # Null THEN "curve" ELSE "manual"]
    /\ UNCHANGED <<sweepVars, cmp, chk, val, spa, ldr>>

(* lines 174-182 *)
EstManual ==
    /\ est.pc = "manual"
    /\ LET t == TierManual(est.file.energy)
       IN  est' = [est EXCEPT !.calls = Append(@, [tier |-> "schroeder60", rt60 |-> t.rt60]),
                      !.rt60_broadband = t.rt60,
                      !.pc = IF t.rt60 # Null THEN "build" ELSE "rt30"]
    /\ UNCHANGED <<sweepVars, cmp, chk, val, spa, ldr>>

(* lines 184-190 *)
EstRt30 ==
    /\ est.pc = "rt30"
    /\ LET t == TierRt30(est.file.energy)
       IN  est' = [est EXCEPT !.calls = Append(@, [tier |-> "schroeder30", rt60 |-> t.rt60]),
                      !.rt60_broadband = t.rt60,
                      !.method = IF t.rt60 # Null THEN t.method ELSE @,
                      !.pc = "build"]
    /\ UNCHANGED <<sweepVars, cmp, chk, val, spa, ldr>>

(* lines 191-193: the energy curve for the plot *)
EstCurve ==
    /\ est.pc = "curve"
    /\ est' = [est EXCEPT !.curve = TRUE, !.pc = "build"]
    /\ UNCHANGED <<sweepVars, cmp, chk, val, spa, ldr>>

EstBuild_null_fatal ==
    /\ est.pc = "build"
    /\ IF est.rt60_broadband = Null
       THEN est' = [est EXCEPT !.exit = 1, !.pc = "returned"]
       ELSE est' = [est EXCEPT !.doc = [built |-> TRUE, saved |-> est.output,
                                        rt60_seconds |-> est.rt60_broadband,
                                        method |-> est.method,
                                        analysis_method |-> est.method,
                                        peak |-> est.peak],
                               !.exit = 0,
                               !.pc = "done"]
    /\ UNCHANGED <<sweepVars, cmp, chk, val, spa, ldr>>

(* lines 195-241 and 313 *)
EstBuild ==
    /\ est.pc = "build"
    /\ est' = [est EXCEPT !.doc = [built |-> TRUE, saved |-> est.output,
                                   rt60_seconds |-> est.rt60_broadband,
                                   method |-> est.method,
                                   analysis_method |-> est.method,
                                   peak |-> est.peak],
                          !.exit = 0,
                          !.pc = "done"]
    /\ UNCHANGED <<sweepVars, cmp, chk, val, spa, ldr>>

(* ---- the recordings explored ---- *)
Energies == {0, 3, 5000, 2000000, 500000000}

Recording(energy) == [exists |-> TRUE, readable |-> TRUE, energy |-> energy]

PraOutcomes == { PraOutcome("raise", 0), PraOutcome("none", 0), PraOutcome("nan", 0),
                 PraOutcome("value", 0), PraOutcome("value", 0 - 2), PraOutcome("value", 2) }

(* The synthetic fixture: an impulse in the first sample whose energy       *)
(* falls by the factor slope from each sample to the next until it has     *)
(* reached the noise floor; n samples long.  A smaller slope is a          *)
(* shallower decay.                                                        *)
RECURSIVE Faded(_, _, _)
Faded(peak, slope, k) == IF k = 0 THEN peak ELSE Faded(peak, slope, k - 1) \div slope

Decay(f) ==
    [k \in 1 .. f.n |->
        IF Faded(f.peak, f.slope, k - 1) > f.floor
        THEN Faded(f.peak, f.slope, k - 1)
        ELSE f.floor]

FixturePeaks == {65536, 786432, 1048576, 268435456}
FixtureSlopes == {2, 4, 16}
FixtureFloors == {0, 1}
FixtureLengths == {12, 20}

Fixtures ==
    [peak : FixturePeaks, slope : FixtureSlopes, floor : FixtureFloors, n : FixtureLengths]

EstRuns ==
    { EstStart(Recording(Decay(f)), FALSE, PraOutcome("raise", 0), TRUE) : f \in Fixtures }
    \cup
    { EstStart(Recording(e), TRUE, p, TRUE) :
        e \in SeqsOf(Energies, 0) \cup SeqsOf(Energies, 1) \cup SeqsOf(Energies, 2)
              \cup SeqsOf(Energies, 3),
        p \in PraOutcomes }
    \cup
    { EstStart(Recording(e), FALSE, PraOutcome("raise", 0), o) :
        e \in SeqsOf(Energies, 2) \cup SeqsOf(Energies, 3), o \in BOOLEAN }
    \cup
    { EstStart([exists |-> x, readable |-> FALSE, energy |-> <<>>], h,
               PraOutcome("raise", 0), TRUE) : x \in BOOLEAN, h \in BOOLEAN }

(* ================================================================== *)
(* Schema validator (tools/validate_schemas.py)                        *)
(* ================================================================== *)
(* File names are sequences of one-character strings.                  *)
LowerChar(c) ==
    CASE c = "A" -> "a"
      [] c = "B" -> "b"
      [] c = "C" -> "c"
      [] c = "D" -> "d"
      [] c = "E" -> "e"
      [] c = "F" -> "f"
      [] c = "G" -> "g"
      [] c = "H" -> "h"
      [] c = "I" -> "i"
      [] c = "J" -> "j"
      [] c = "K" -> "k"
      [] c = "L" -> "l"
      [] c = "M" -> "m"
      [] c = "N" -> "n"
      [] c = "O" -> "o"
      [] c = "P" -> "p"
      [] c = "Q" -> "q"
      [] c = "R" -> "r"
      [] c = "S" -> "s"
      [] c = "T" -> "t"
      [] c = "U" -> "u"
      [] c = "V" -> "v"
      [] c = "W" -> "w"
      [] c = "X" -> "x"
      [] c = "Y" -> "y"
      [] c = "Z" -> "z"
      [] OTHER -> c

(* str.lower() *)
Lower(name) == [k \in DOMAIN name |-> LowerChar(name[k])]

(* sub in text, for strings *)
Contains(text, sub) ==
    \E k \in 0 .. Len(text) - Len(sub) : SubSeq(text, k + 1, k + Len(sub)) = sub

(* A parsed JSON document.  kind is "object", "array", "string" or         *)
(* "scalar" (a number, true, false or null); has is the set of names x for *)
(* which the Python test `x in data` is true: the keys of an object, the   *)
(* string elements of an array, the substrings of a string.  The test      *)
(* raises TypeError on a scalar, and only an object has .get().            *)
Json(kind, has, broadband) == [kind |-> kind, has |-> has, broadband |-> broadband]
NoBroadband == [kind |-> "absent", has |-> {}]
Scalar == Json("scalar", {}, NoBroadband)

(* detect_schema_type: a schema name, "None", or "raised" *)
detect_schema_type(data, name) ==
    LET filename == Lower(name)
    IN  IF Contains(filename, <<"r", "t", "6", "0">>) \/ filename = <<"r", "t", "6", "0", "_", "m", "e", "t", "r", "i", "c", "s", ".", "j", "s", "o", "n">>
        THEN "rt60_metrics"
        ELSE IF Contains(filename, <<"f", "r", "e", "q">>) \/ Contains(filename, <<"f", "r", "e", "q", "u", "e", "n", "c", "y">>)
                \/ filename = <<"f", "r", "e", "q", "u", "e", "n", "c", "y", "_", "r", "e", "s", "p", "o", "n", "s", "e", ".", "j", "s", "o", "n">>
        THEN "frequency_response"
        ELSE IF Contains(filename, <<"c", "a", "p", "t", "u", "r", "e">>) \/ filename = <<"c", "a", "p", "t", "u", "r", "e", "_", "m", "e", "t", "a", "d", "a", "t", "a", ".", "j", "s", "o", "n">>
                \/ filename = <<"m", "e", "t", "a", "d", "a", "t", "a", ".", "j", "s", "o", "n">>
        THEN "capture_metadata"
        ELSE IF Contains(filename, <<"r", "e", "g", "r", "e", "s", "s", "i", "o", "n">>) \/ filename = <<"r", "e", "g", "r", "e", "s", "s", "i", "o", "n", "_", "r", "e", "p", "o", "r", "t", ".", "j", "s", "o", "n">>
        THEN "regression_report"
        ELSE IF Contains(filename, <<"c", "p", "u">>) \/ Contains(filename, <<"p", "r", "o", "f", "i", "l", "e">>)
        THEN "cpu_profile"
        (* line 109: the first `in` raises on a scalar *)
        ELSE IF data.kind = "scalar" THEN "raised"
        ELSE IF {"octave_bands", "broadband"} \subseteq data.has
                (* line 110: data.get *)
                /\ data.kind # "object"
        THEN "raised"
        ELSE IF {"octave_bands", "broadband"} \subseteq data.has
                /\ data.broadband.kind = "scalar"
        THEN "raised"
        ELSE IF {"octave_bands", "broadband"} \subseteq data.has
                /\ "rt60_seconds" \in data.broadband.has
        THEN "rt60_metrics"
        ELSE IF {"octave_bands", "broadband"} \subseteq data.has
                /\ "flatness_db" \in data.broadband.has
        THEN "frequency_response"
        ELSE IF {"plugin_path", "test_type", "block_size"} \subseteq data.has
        THEN "capture_metadata"
        ELSE IF {"baseline_dir", "preset_results", "overall_pass"} \subseteq data.has
        THEN "regression_report"
        ELSE IF {"top_functions", "module_breakdown", "estimated_cpu_load_percent"}
                    \subseteq data.has
        THEN "cpu_profile"
        ELSE "None"

(* A JSON file: its name, whether a directory called schemas lies on its    *)
(* path, whether it parses, the document, and the schemas the document     *)
(* conforms to (jsonschema's verdict, which lies outside this model)       *)
JsonFile(name, under_schemas, parses, data, valid_for) ==
    [name |-> name, under_schemas |-> under_schemas, parses |-> parses,
     data |-> data, valid_for |-> valid_for]

(* validate_file: [raised, success, schema, message]; schema is the schema *)
(* type settled on, "none" while none was                                  *)
Verdict(success, schema, message) ==
    [raised |-> FALSE, success |-> success, schema |-> schema, message |-> message]

validate_file(file, schemas, schema_arg) ==
    IF ~file.parses THEN Verdict(FALSE, "none", "Invalid JSON")
    ELSE LET schema_type == IF schema_arg = "None"
                            THEN detect_schema_type(file.data, file.name)
                            ELSE schema_arg
         IN  IF schema_type = "raised"
             THEN [raised |-> TRUE, success |-> FALSE, schema |-> "none", message |-> "TypeError"]
             ELSE IF schema_type = "None"
             THEN Verdict(FALSE, "None", "Could not auto-detect schema type")
             ELSE IF schema_type \notin schemas
             THEN Verdict(FALSE, schema_type, "Schema not found")
             ELSE IF schema_type \in file.valid_for
             THEN Verdict(TRUE, schema_type, "Valid")
             ELSE Verdict(FALSE, schema_type, "Schema validation failed")

(* ---- one run of main() ---- *)
(* path: "missing", "file" (files holds that one file) or "dir" (files is  *)
(* the sorted recursive listing of *.json); log: one entry per file handed *)
(* to validate_file                                                        *)
ValStart(path, schema_arg, schemas, files) ==
    [pc |-> "start", path |-> path, schema_arg |-> schema_arg, schemas |-> schemas,
     files |-> files, json_files |-> <<>>, k |-> 1, passed |-> 0, failed |-> 0,
     log |-> <<>>, exit |-> Null]

LogEntry(j, v) == [file |-> j, schema |-> v.schema, success |-> v.success,
                   message |-> v.message]

(* lines 232-263: the schemas, the path, and the validation of one file *)
ValMain ==
    /\ val.pc = "start"
    /\ IF val.schemas = {} \/ val.path = "missing"
       THEN val' = [val EXCEPT !.pc = "exited", !.exit = 2]
       ELSE IF val.path = "file"
       THEN LET v == validate_file(val.files[1], val.schemas, val.schema_arg)
            IN  IF v.raised
                THEN val' = [val EXCEPT !.pc = "crashed", !.exit = 1]
                ELSE val' = [val EXCEPT !.pc = "exited",
                                        !.log = <<LogEntry(1, v)>>,
                                        !.exit = IF v.success THEN 0 ELSE 1]
       ELSE val' = [val EXCEPT !.pc = "scan"]
    /\ UNCHANGED <<sweepVars, cmp, chk, est, spa, ldr>>

(* lines 182-186 *)
skipped(file) ==
    \/ file.under_schemas
    \/ file.name \in {<<"m", "a", "n", "i", "f", "e", "s", "t", ".", "j", "s", "o", "n">>,
                      <<"p", "a", "c", "k", "a", "g", "e", ".", "j", "s", "o", "n">>}

RECURSIVE Kept(_, _)
Kept(files, j) ==
    IF j > Len(files) THEN <<>>
    ELSE IF skipped(files[j]) THEN Kept(files, j + 1)
    ELSE <<j>> \o Kept(files, j + 1)

(* lines 178-191: json_files holds the indices of the files kept *)
ValScan ==
    /\ val.pc = "scan"
    /\ val' = [val EXCEPT !.json_files = Kept(val.files, 1),
                          !.k = 1,
                          !.pc = IF Kept(val.files, 1) = <<>> THEN "summary" ELSE "loop"]
    /\ UNCHANGED <<sweepVars, cmp, chk, est, spa, ldr>>

(* lines 193-205: one file *)
ValFile ==
    /\ val.pc = "loop"
    /\ LET j == val.json_files[val.k]
           v == validate_file(val.files[j], val.schemas, "None")
       IN  IF v.raised
           THEN val' = [val EXCEPT !.pc = "crashed", !.exit = 1]
           ELSE val' = [val EXCEPT !.log = Append(@, LogEntry(j, v)),
                                   !.passed = IF v.success THEN @ + 1 ELSE @,
                                   !.failed = IF v.success THEN @ ELSE @ + 1,
                                   !.k = @ + 1,
                                   !.pc = IF val.k = Len(val.json_files)
                                          THEN "summary" ELSE "loop"]
    /\ UNCHANGED <<sweepVars, cmp, chk, est, spa, ldr>>

(* lines 271-282 *)
ValSummary ==
    /\ val.pc = "summary"
    /\ val' = [val EXCEPT !.pc = "exited", !.exit = IF val.failed > 0 THEN 1 ELSE 0]
    /\ UNCHANGED <<sweepVars, cmp, chk, est, spa, ldr>>

(* ---- the files and runs explored ---- *)
AllSchemas == {"rt60_metrics", "frequency_response", "capture_metadata",
               "regression_report", "cpu_profile"}

Obj(keys) == Json("object", keys, NoBroadband)
ObjBroadband(keys, bb_kind, bb_keys) ==
    Json("object", keys \cup {"broadband"}, [kind |-> bb_kind, has |-> bb_keys])

(* what rt60_analysis_robust.py, frequency_response.py and the sweep write *)
Rt60MetricsDoc == ObjBroadband({"_metadata"}, "object", {"rt60_seconds", "method"})
FreqMetricsDoc == ObjBroadband({"octave_bands"}, "object", {"flatness_db"})
CaptureDoc == Obj({"plugin_path", "test_type", "block_size", "parameters"})
SweepManifestDoc == Obj({"timestamp", "plugin_path", "analyzer_path", "presets",
                         "drift_values", "chaos_values", "block_size"})
SweepSummaryDoc == Obj({"summary", "runs"})

SweepFiles ==
    << JsonFile(<<"m", "e", "t", "a", "d", "a", "t", "a", ".", "j", "s", "o", "n">>, FALSE, TRUE, CaptureDoc, {"capture_metadata"}),
       JsonFile(<<"r", "t", "6", "0", "_", "m", "e", "t", "r", "i", "c", "s", ".", "j", "s", "o", "n">>, FALSE, TRUE, Rt60MetricsDoc, {"rt60_metrics"}),
       JsonFile(<<"f", "r", "e", "q", "_", "m", "e", "t", "r", "i", "c", "s", ".", "j", "s", "o", "n">>, FALSE, TRUE, FreqMetricsDoc, {"frequency_response"}),
       JsonFile(<<"s", "w", "e", "e", "p", "_", "m", "a", "n", "i", "f", "e", "s", "t", ".", "j", "s", "o", "n">>, FALSE, TRUE, SweepManifestDoc, {}),
       JsonFile(<<"s", "w", "e", "e", "p", "_", "s", "u", "m", "m", "a", "r", "y", ".", "j", "s", "o", "n">>, FALSE, TRUE, SweepSummaryDoc, {}) >>

(* documents in a file whose name follows no convention *)
PlainDocs ==
    { ObjBroadband({"octave_bands"}, "object", {"rt60_seconds"}),
      ObjBroadband({"octave_bands"}, "object", {"flatness_db"}),
      ObjBroadband({"octave_bands"}, "object", {"rt60_seconds", "flatness_db"}),
      ObjBroadband({"octave_bands"}, "object", {}),
      ObjBroadband({}, "object", {"rt60_seconds"}),
      ObjBroadband({"octave_bands"}, "scalar", {}),
      CaptureDoc,
      Obj({"baseline_dir", "preset_results", "overall_pass"}),
      Obj({"top_functions", "module_breakdown", "estimated_cpu_load_percent"}),
      SweepSummaryDoc,
      Json("array", {}, NoBroadband),
      Json("array", {"octave_bands", "broadband"}, NoBroadband),
      Scalar }

FileCatalog ==
    { JsonFile(<<"d", "a", "t", "a", ".", "j", "s", "o", "n">>, FALSE, TRUE, d, v) :
        d \in PlainDocs, v \in {{}, AllSchemas} }
    \cup
    { JsonFile(n, FALSE, TRUE, d, {"rt60_metrics", "frequency_response"}) :
        n \in {<<"R", "T", "6", "0", "_", "f", "r", "e", "q", ".", "j", "s", "o", "n">>, <<"f", "r", "e", "q", "_", "r", "t", "6", "0", ".", "j", "s", "o", "n">>,
               <<"F", "r", "e", "q", "u", "e", "n", "c", "y", ".", "j", "s", "o", "n">>, <<"c", "p", "u", "_", "p", "r", "o", "f", "i", "l", "e", ".", "j", "s", "o", "n">>,
               <<"r", "e", "g", "r", "e", "s", "s", "i", "o", "n", ".", "j", "s", "o", "n">>, <<"c", "a", "p", "t", "u", "r", "e", "_", "0", "1", ".", "j", "s", "o", "n">>},
        d \in {FreqMetricsDoc, Scalar} }
    \cup
    { JsonFile(<<"m", "a", "n", "i", "f", "e", "s", "t", ".", "j", "s", "o", "n">>, FALSE, TRUE, Obj({"files"}), {}),
      JsonFile(<<"p", "a", "c", "k", "a", "g", "e", ".", "j", "s", "o", "n">>, FALSE, TRUE, Obj({"name"}), {}),
      JsonFile(<<"r", "t", "6", "0", ".", "s", "c", "h", "e", "m", "a", ".", "j", "s", "o", "n">>, TRUE, TRUE, Obj({"properties"}), {}),
      JsonFile(<<"n", "o", "t", "e", "s", ".", "j", "s", "o", "n">>, FALSE, FALSE, Scalar, {}) }
    \cup
    { SweepFiles[k] : k \in DOMAIN SweepFiles }

ValRuns ==
    { ValStart("file", a, sc, <<f>>) :
        a \in {"None", "rt60_metrics", "bogus"},
        sc \in {AllSchemas, AllSchemas \ {"rt60_metrics"}},
        f \in FileCatalog }
    \cup
    { ValStart("dir", a, AllSchemas, <<f, g>>) :
        a \in {"None", "rt60_metrics"}, f \in {SweepFiles[2]}, g \in FileCatalog }
    \cup
    { ValStart("dir", "None", AllSchemas, fl) :
        fl \in {<<>>, SweepFiles,
                <<SweepFiles[1], SweepFiles[2], SweepFiles[3]>>,
                <<SweepFiles[2], SweepFiles[1], SweepFiles[2], SweepFiles[3]>>} }
    \cup
    { ValStart("dir", "None", AllSchemas, <<f>>) : f \in FileCatalog }
    \cup
    { ValStart(pa, "None", sc, <<>>) : pa \in {"missing", "dir"}, sc \in {{}, AllSchemas} }

(* ================================================================== *)
(* The WAV loaders of the analyzers, the comparator and the checker     *)
(* ================================================================== *)
(* A WAV file: format "pcm16", "pcm24", "pcm32" or "float", and frames  *)
(* of one sample per channel.  A pcm16 sample is its integer value; a   *)
(* pcm24 or pcm32 sample is given by its upper 16 bits h (the file      *)
(* holds h * 2^8 or h * 2^16, the lower bits being zero); a float       *)
(* sample counts thousandths.  A loaded sample is a fraction num / den, *)
(* or what a float32 can hold besides: "nan", "inf", "ninf", and "tiny" *)
(* for a non-zero magnitude below 2^-7.                                 *)
WavData(format, frames) == [format |-> format, frames |-> frames]

Frac(num, den) == [kind |-> "num", num |-> num, den |-> den]
Special(kind) == [kind |-> kind, num |-> 0, den |-> 1]

FrameSum(frame) == SumOver(frame, Len(frame))

Flat(frames) ==
    [k \in 1 .. Len(frames) * Len(frames[1]) |->
        frames[((k - 1) \div Len(frames[1])) + 1][((k - 1) % Len(frames[1])) + 1]]

(* scipy.io.wavfile.read: int16 for pcm16, int32 for pcm24 (left-justified) *)
(* and pcm32, float32 for float; an int32 value is h * 2^16                 *)
ScipyDtype(format) ==
    CASE format = "pcm16" -> "int16"
      [] format \in {"pcm24", "pcm32"} -> "int32"
      [] OTHER -> "float32"

(* np.abs of an int32: the most negative value wraps to itself *)
AbsInt32(h) == IF h = 0 - 32768 THEN h ELSE Abs(h)

(* np.abs(audio).max() > 2**23, for int32 values h * 2^16 *)
LooksLike24Bit(hs) ==
    \E k \in DOMAIN hs : \A j \in DOMAIN hs :
        AbsInt32(hs[k]) >= AbsInt32(hs[j]) /\ AbsInt32(hs[k]) > 128

(* the dtype branches of rt60_analysis_robust.py 133-146, of               *)
(* frequency_response.py 75-86 and of spatial_metrics.py 52-61, applied to *)
(* one value of an array hs                                                *)
NormalizeByDtype(dtype, value, hs) ==
    CASE dtype = "int16" -> Frac(value, 32768)
      [] dtype = "int32" -> IF LooksLike24Bit(hs) THEN Frac(value, 128)
                            ELSE Frac(value, 32768)
      [] OTHER -> Frac(value, 1000)

(* rt60_analysis_robust.py 125-146: np.mean over the channels comes first  *)
(* and makes the array float64, which the dtype branches leave alone       *)
load_rt60_audio(file) ==
    LET frames == file.frames
        dtype  == ScipyDtype(file.format)
        mono   == [k \in DOMAIN frames |-> frames[k][1]]
    IN  IF Len(frames[1]) = 1
        THEN [k \in DOMAIN frames |-> NormalizeByDtype(dtype, mono[k], mono)]
        ELSE [k \in DOMAIN frames |->
                CASE dtype = "int16" -> Frac(FrameSum(frames[k]), Len(frames[k]))
                  [] dtype = "int32" -> Frac(FrameSum(frames[k]) * (65536 \div Len(frames[k])), 1)
                  [] OTHER -> Frac(FrameSum(frames[k]), 1000 * Len(frames[k]))]

(* spatial_metrics.py 45-76: both channels are kept; the samples in file order *)
load_audio(file) ==
    LET flat == Flat(file.frames)
    IN  [k \in DOMAIN flat |-> NormalizeByDtype(ScipyDtype(file.format), flat[k], flat)]

(* compare_baseline.py 58-72: astype(float32) / 32768 whatever the dtype,  *)
(* then the mean over the channels                                         *)
load_compare_audio(file) ==
    [k \in DOMAIN file.frames |->
        LET frame == file.frames[k]
        IN  CASE ScipyDtype(file.format) = "int16" -> Frac(FrameSum(frame), 32768 * Len(frame))
              [] ScipyDtype(file.format) = "int32" -> Frac(FrameSum(frame) * 2, Len(frame))
              [] OTHER -> Frac(FrameSum(frame), 32768000 * Len(frame))]

(* np.frombuffer(raw_data, dtype=np.float32) on 32-bit integer samples:    *)
(* the bits h * 2^16 read as a float32 have the sign in bit 15 of h, the   *)
(* exponent in the next 8 bits and the mantissa's top 7 bits below         *)
BitsAsFloat(h) ==
    LET bits     == IF h < 0 THEN h + 65536 ELSE h
        negative == bits >= 32768
        exponent == (bits % 32768) \div 128
        mantissa == bits % 128
        sign     == IF negative THEN 0 - 1 ELSE 1
    IN  IF exponent = 255
        THEN (IF mantissa # 0 THEN Special("nan")
              ELSE IF negative THEN Special("ninf") ELSE Special("inf"))
        ELSE IF exponent = 0 /\ mantissa = 0 THEN Frac(0, 16384)
        ELSE IF exponent < 120 THEN Special("tiny")
        ELSE IF exponent > 135 THEN (IF negative THEN Special("ninf") ELSE Special("inf"))
        ELSE Frac(sign * (128 + mantissa) * (2 ^ (exponent - 120)), 16384)

(* the float32 mean of a stereo frame of such values *)
MeanOfFloats(a, b) ==
    IF a.kind = "nan" \/ b.kind = "nan" THEN Special("nan")
    ELSE IF {a.kind, b.kind} = {"inf", "ninf"} THEN Special("nan")
    ELSE IF a.kind \in {"inf", "ninf"} THEN a
    ELSE IF b.kind \in {"inf", "ninf"} THEN b
    ELSE IF a.kind = "tiny" /\ b.kind = "tiny" THEN Special("tiny")
    ELSE IF a.kind = "tiny" THEN (IF b.num = 0 THEN a ELSE Frac(b.num, 2 * b.den))
    ELSE IF b.kind = "tiny" THEN (IF a.num = 0 THEN b ELSE Frac(a.num, 2 * a.den))
    ELSE Frac(a.num + b.num, 2 * a.den)

(* check_audio_stability.py 63-95: the wave module opens PCM only; 24-bit  *)
(* samples are h * 2^8 / 2^23; 4-byte samples are read as float32          *)
load_checker_audio(file) ==
    IF file.format = "float" THEN [ok |-> FALSE, samples |-> <<>>]
    ELSE [ok |-> TRUE,
          samples |->
            [k \in DOMAIN file.frames |->
                LET frame == file.frames[k]
                IN  IF file.format \in {"pcm16", "pcm24"}
                    THEN Frac(FrameSum(frame), 32768 * Len(frame))
                    ELSE IF Len(frame) = 1 THEN BitsAsFloat(frame[1])
                    ELSE MeanOfFloats(BitsAsFloat(frame[1]), BitsAsFloat(frame[2]))]]

(* ---- one file through the four loaders ---- *)
LdrStart(file) ==
    [pc |-> "rt60", file |-> file, rt60 |-> <<>>, spatial |-> <<>>, compare |-> <<>>,
     checker |-> [ok |-> FALSE, samples |-> <<>>]]

LdrRt60 ==
    /\ ldr.pc = "rt60"
    /\ ldr' = [ldr EXCEPT !.rt60 = load_rt60_audio(ldr.file), !.pc = "spatial"]
    /\ UNCHANGED <<sweepVars, cmp, chk, est, val, spa>>

LdrSpatial ==
    /\ ldr.pc = "spatial"
    /\ ldr' = [ldr EXCEPT !.spatial = load_audio(ldr.file), !.pc = "compare"]
    /\ UNCHANGED <<sweepVars, cmp, chk, est, val, spa>>

LdrCompare ==
    /\ ldr.pc = "compare"
    /\ ldr' = [ldr EXCEPT !.compare = load_compare_audio(ldr.file), !.pc = "checker"]
    /\ UNCHANGED <<sweepVars, cmp, chk, est, val, spa>>

LdrChecker ==
    /\ ldr.pc = "checker"
    /\ ldr' = [ldr EXCEPT !.checker = load_checker_audio(ldr.file), !.pc = "done"]
    /\ UNCHANGED <<sweepVars, cmp, chk, est, val, spa>>

(* ---- the files explored ---- *)
Pcm16Values == {0, 1, 16384, 32767, 0 - 32768}
(* upper halves: 1 and 128 are quiet, 129 is just past the 2**23 test,     *)
(* 16256, 16384 and 32640 are the bits of 1.0, 2.0 and +Inf                *)
UpperHalves == {0, 1, 128, 129, 16256, 16384, 32640, 32767, 0 - 32768}
FloatValues == {0, 500, 0 - 1000, 1500}

ValuesOf(format) ==
    CASE format = "pcm16" -> Pcm16Values
      [] format \in {"pcm24", "pcm32"} -> UpperHalves
      [] OTHER -> FloatValues

LdrFiles ==
    UNION { { WavData(fmt, <<<<a>>>>) : a \in ValuesOf(fmt) }
            \cup { WavData(fmt, <<<<a>>, <<b>>>>) : a, b \in ValuesOf(fmt) }
            \cup { WavData(fmt, <<<<a, b>>>>) : a, b \in ValuesOf(fmt) }
          : fmt \in {"pcm16", "pcm24", "pcm32", "float"} }

LdrRuns == { LdrStart(f) : f \in LdrFiles }

(* ================================================================== *)
(* spatial_metrics.py: analysis window, lag window, ITD and IACC       *)
(* ================================================================== *)
(* The array returned by load_audio: frames <<left, right>> of float32     *)
(* samples.  A sample is a finite value, an integer number of units, or a  *)
(* NaN, which a float WAV can hold.                                        *)
Sample(v) == [nan |-> FALSE, v |-> v]
NaNSample == [nan |-> TRUE, v |-> 0]

(* int(x / 1000.0): truncation towards zero *)
IntOfThousandth(x) == IF x >= 0 THEN x \div 1000 ELSE 0 - ((0 - x) \div 1000)

(* np.max(np.abs(audio), axis=1) of one frame: NaN propagates *)
FrameMagnitude(frame) ==
    IF frame[1].nan \/ frame[2].nan THEN NaNSample
    ELSE Sample(IF Abs(frame[1].v) >= Abs(frame[2].v) THEN Abs(frame[1].v)
                ELSE Abs(frame[2].v))

(* np.argmax: the first NaN if there is one, else the first maximum; 0-based *)
ArgMaxMagnitude(mags) ==
    LET nans == {k \in DOMAIN mags : mags[k].nan}
        tops == {k \in DOMAIN mags : \A j \in DOMAIN mags : mags[k].v >= mags[j].v}
        pick(set) == CHOOSE k \in set : \A j \in set : k <= j
    IN  (IF nans # {} THEN pick(nans) ELSE pick(tops)) - 1

(* a variant that does not cut the window at the end of the recording *)
select_window_uncut(audio, sample_rate, window_ms) ==
    LET N          == Len(audio)
        peak_index == ArgMaxMagnitude([k \in DOMAIN audio |-> FrameMagnitude(audio[k])])
        computed   == IntOfThousandth(sample_rate * window_ms)
        window_samples == IF computed <= 0 THEN N ELSE computed
    IN  [start |-> peak_index, end |-> peak_index + window_samples,
         requested |-> window_samples]

(* select_window: (peak_index, end, window_samples), indices 0-based and   *)
(* end exclusive                                                           *)
select_window(audio, sample_rate, window_ms) ==
    LET N          == Len(audio)
        peak_index == ArgMaxMagnitude([k \in DOMAIN audio |-> FrameMagnitude(audio[k])])
        computed   == IntOfThousandth(sample_rate * window_ms)
        window_samples == IF computed <= 0 THEN N ELSE computed
        end        == Min(N, peak_index + window_samples)
    IN  IF end <= peak_index
        THEN [start |-> 0, end |-> N, requested |-> window_samples]
        ELSE [start |-> peak_index, end |-> end, requested |-> window_samples]

(* max_lag_samples of analyze_spatial_metrics: [value, clamped] *)
max_lag_samples_of(sample_rate, max_lag_ms) ==
    LET computed == IntOfThousandth(sample_rate * max_lag_ms)
    IN  IF computed < 1 THEN [value |-> 1, clamped |-> TRUE]
        ELSE [value |-> computed, clamped |-> FALSE]

HasNaN(channel) == \E k \in DOMAIN channel : channel[k].nan
IsSilent(channel) == \A k \in DOMAIN channel : ~channel[k].nan /\ channel[k].v = 0

(* gcc_phat: the shifts that int(np.argmax(np.abs(corr)) - max_shift) can  *)
(* return.  corr is cut to the 2 * max_shift + 1 entries around lag 0; the *)
(* phase transform itself is not computed: any entry of the cut array may  *)
(* hold the maximum, except that an all-NaN or an all-zero array has it at *)
(* index 0.                                                                *)
gcc_phat(sig, refsig, max_lag) ==
    LET n         == Len(sig) + Len(refsig)
        requested == IF max_lag <= 0 THEN n \div 2 ELSE max_lag
        max_shift == Min(requested, n \div 2)
        cut_len   == Min(max_shift, n) + Min(max_shift + 1, n)
    IN  IF HasNaN(sig) \/ HasNaN(refsig) \/ IsSilent(sig) \/ IsSilent(refsig)
        THEN {0 - max_shift}
        ELSE {k - max_shift : k \in 0 .. cut_len - 1}

(* normalized_cross_correlation, exactly: with L = len(left), the channels *)
(* less their means are (L * x[k] - sum(x)) / L; Corr(d) is L * L times    *)
(* the unnormalised correlation at lag d and Energy(x) is L * L times      *)
(* sum(x ** 2), so that corr[d] = Corr(d) / sqrt(Energy(left) * Energy(right)) *)
Centered(channel) ==
    LET L   == Len(channel)
        sum == SumOver([k \in 1 .. L |-> channel[k].v], L)
    IN  [k \in 1 .. L |-> L * channel[k].v - sum]

Corr(left, right, d) ==
    LET L == Len(left)
        l == Centered(left)
        r == Centered(right)
    IN  SumOver([k \in 1 .. L |-> IF k - d \in 1 .. L THEN l[k] * r[k - d] ELSE 0], L)

Energy(channel) ==
    LET c == Centered(channel)
    IN  SumOver([k \in 1 .. Len(channel) |-> c[k] * c[k]], Len(channel))

(* a correlation value: NaN, or sign * sqrt(num / den) *)
CorrValue(sign, num, den) == [nan |-> FALSE, sign |-> sign, num |-> num, den |-> den]
CorrNaN == [nan |-> TRUE, sign |-> 0, num |-> 0, den |-> 1]

Sign(x) == IF x > 0 THEN 1 ELSE IF x < 0 THEN 0 - 1 ELSE 0

(* np.clip(x, -1.0, 1.0): NaN stays NaN *)
ClipUnit(x) ==
    IF x.nan THEN x
    ELSE IF x.num > x.den THEN CorrValue(x.sign, 1, 1) ELSE x

(* abs(x) *)
AbsValue(x) == IF x.nan THEN x ELSE CorrValue(Abs(x.sign), x.num, x.den)

(* lines 174-182: the peak of |corr| inside the lag window, the first one  *)
(* in lag order; [lag, raw]                                                *)
iacc_peak(left, right, max_lag) ==
    LET L      == Len(left)
        window == {d \in (1 - L) .. (L - 1) : d >= 0 - max_lag /\ d <= max_lag}
        first  == CHOOSE d \in window : \A e \in window : d <= e
        A      == Energy(left)
        B      == Energy(right)
        best   == CHOOSE d \in window :
                      /\ \A e \in window : Abs(Corr(left, right, d)) >= Abs(Corr(left, right, e))
                      /\ \A e \in window :
                            Abs(Corr(left, right, e)) = Abs(Corr(left, right, d)) => d <= e
        c      == Corr(left, right, best)
    IN  IF HasNaN(left) \/ HasNaN(right)
        THEN [lag |-> first, raw |-> CorrNaN]
        ELSE IF A * B = 0
        THEN [lag |-> first, raw |-> CorrValue(0, 0, 1)]
        ELSE [lag |-> best, raw |-> CorrValue(Sign(c), c * c, A * B)]

(* ---- one run of main() ---- *)
SpaStart(exists, audio, sample_rate, window_ms, max_lag_ms, output) ==
    [pc |-> "start", exists |-> exists, audio |-> audio, sample_rate |-> sample_rate,
     window_ms |-> window_ms, max_lag_ms |-> max_lag_ms, output |-> output,
     start |-> Null, end |-> Null, requested |-> Null, max_lag_samples |-> Null,
     itd_samples |-> Null, iacc_lag_samples |-> Null,
     iacc_signed |-> CorrNaN, iacc |-> CorrNaN,
     notes |-> <<>>, reported |-> FALSE, saved |-> FALSE, exit |-> Null]

(* lines 251-255: a missing file returns 1; load_audio is the array *)
SpaMain ==
    /\ spa.pc = "start"
    /\ spa' = IF ~spa.exists THEN [spa EXCEPT !.pc = "done", !.exit = 1]
              ELSE [spa EXCEPT !.pc = "window"]
    /\ UNCHANGED <<sweepVars, cmp, chk, est, val, ldr>>

(* lines 157-162; np.argmax raises ValueError on a recording of no frames *)
SpaWindow ==
    /\ spa.pc = "window"
    /\ spa' = IF spa.audio = <<>>
              THEN [spa EXCEPT !.pc = "crashed", !.exit = 1]
              ELSE LET w == select_window(spa.audio, spa.sample_rate, spa.window_ms)
                   IN  [spa EXCEPT !.pc = "itd",
                                   !.start = w.start, !.end = w.end,
                                   !.requested = w.requested,
                                   !.notes = IF w.end - w.start < w.requested
                                             THEN <<"Analysis window truncated due to file length.">>
                                             ELSE <<>>]
    /\ UNCHANGED <<sweepVars, cmp, chk, est, val, ldr>>

WindowOf(a, channel) == [k \in 1 .. a.end - a.start |-> a.audio[a.start + k][channel]]

(* lines 164-172 *)
SpaItd ==
    /\ spa.pc = "itd"
    /\ LET lag == max_lag_samples_of(spa.sample_rate, spa.max_lag_ms)
       IN  \E shift \in gcc_phat(WindowOf(spa, 1), WindowOf(spa, 2), lag.value) :
              spa' = [spa EXCEPT !.pc = "iacc",
                                 !.max_lag_samples = lag.value,
                                 !.itd_samples = shift,
                                 !.notes = IF lag.clamped
                                           THEN Append(@, "Max lag too small; clamped to 1 sample.")
                                           ELSE @]
    /\ UNCHANGED <<sweepVars, cmp, chk, est, val, ldr>>

(* lines 174-212 *)
SpaIacc ==
    /\ spa.pc = "iacc"
    /\ LET peak == iacc_peak(WindowOf(spa, 1), WindowOf(spa, 2), spa.max_lag_samples)
           iacc_signed == ClipUnit(peak.raw)
       IN  spa' = [spa EXCEPT !.pc = "report",
                              !.iacc_lag_samples = peak.lag,
                              !.iacc_signed = iacc_signed,
                              !.iacc = ClipUnit(AbsValue(iacc_signed))]
    /\ UNCHANGED <<sweepVars, cmp, chk, est, val, ldr>>

(* lines 256-281 *)
SpaReport ==
    /\ spa.pc = "report"
    /\ spa' = [spa EXCEPT !.pc = "done", !.reported = TRUE, !.saved = spa.output,
                          !.exit = 0]
    /\ UNCHANGED <<sweepVars, cmp, chk, est, val, ldr>>

(* ---- the recordings and options explored ---- *)
Frame(l, r) == <<Sample(l), Sample(r)>>

(* no frames; one frame; a peak in the middle; the right channel one frame *)
(* late; the peak in the last frame; silence; a NaN before the loudest     *)
(* frame; a NaN in the right channel only; uncorrelated channels           *)
SpaRecordings ==
    { <<>>,
      <<Frame(3, 3)>>,
      <<Frame(0, 0), Frame(3, 1), Frame(1, 2), Frame(0, 1)>>,
      <<Frame(3, 0), Frame(0, 3), Frame(0, 0)>>,
      <<Frame(0, 0), Frame(0, 0), Frame(1, 0 - 3)>>,
      <<Frame(0, 0), Frame(0, 0)>>,
      <<Frame(1, 1), <<NaNSample, Sample(0)>>, Frame(2, 2)>>,
      <<Frame(3, 1), <<Sample(1), NaNSample>>, Frame(0, 2)>>,
      <<Frame(1, 2), Frame(0 - 2, 1), Frame(2, 0 - 1), Frame(1, 1)>> }

SpaRates == {1000, 1500}
SpaWindows == {0 - 1, 0, 1, 2, 3, 80}
SpaLags == {0 - 1, 0, 1, 2, 5}

SpaRuns ==
    { SpaStart(TRUE, a, sr, w, lag, FALSE) :
        a \in SpaRecordings, sr \in SpaRates, w \in SpaWindows, lag \in SpaLags }
    \cup { SpaStart(TRUE, a, 1000, 80, 1, TRUE) : a \in SpaRecordings }
    \cup { SpaStart(FALSE, <<>>, 1000, 80, 1, TRUE) }

(* ================================================================== *)
(* The tools, each run once on one of its inputs                       *)
(* ================================================================== *)
InitTools ==
    /\ SweepIdle
    /\ \/ cmp \in CmpRuns /\ chk = NotRun /\ est = NotRun /\ val = NotRun /\ spa = NotRun /\ ldr = NotRun
       \/ chk \in ChkRuns /\ cmp = NotRun /\ est = NotRun /\ val = NotRun /\ spa = NotRun /\ ldr = NotRun
       \/ est \in EstRuns /\ cmp = NotRun /\ chk = NotRun /\ val = NotRun /\ spa = NotRun /\ ldr = NotRun
       \/ val \in ValRuns /\ cmp = NotRun /\ chk = NotRun /\ est = NotRun /\ spa = NotRun /\ ldr = NotRun
       \/ ldr \in LdrRuns /\ cmp = NotRun /\ chk = NotRun /\ est = NotRun /\ val = NotRun /\ spa = NotRun
       \/ spa \in SpaRuns /\ cmp = NotRun /\ chk = NotRun /\ est = NotRun /\ val = NotRun /\ ldr = NotRun

NextTools ==
    \/ CmpValidate
    \/ CmpPreset
    \/ CmpReport
    \/ ChkLoad
    \/ ChkAnalyze
    \/ ChkThresholds
    \/ EstLoad
    \/ EstPra
    \/ EstManual
    \/ EstRt30
    \/ EstCurve
    \/ EstBuild
    \/ ValMain
    \/ ValScan
    \/ ValFile
    \/ ValSummary
    \/ LdrRt60
    \/ LdrSpatial
    \/ LdrCompare
    \/ LdrChecker
    \/ SpaMain
    \/ SpaWindow
    \/ SpaItd
    \/ SpaIacc
    \/ SpaReport

SpecTools == InitTools /\ [][NextTools]_vars

(* ================================================================== *)
(* Properties of the comparator                                        *)
(* ================================================================== *)
CmpResults == IF cmp.pc = "off" THEN {} ELSE DOMAIN cmp.results

(* the directories that result k was computed from *)
ResultBaseline(k) == BaselinePreset(cmp.dirs, cmp.results[k].preset_index)
ResultCurrent(k)  == CurrentPreset(cmp.dirs, cmp.results[k].preset_index)

BothPresent(k) == ResultBaseline(k).exists /\ ResultCurrent(k).exists

Has(issues, msg) == \E j \in DOMAIN issues : issues[j] = msg

(* ---- C12 ---- *)
(* C12: a preset whose directory is absent on a side fails at once with    *)
(* that reason alone and without metrics: "Baseline preset missing" when   *)
(* the baseline directory is absent, "Current preset missing" when the     *)
(* baseline is present and the current directory absent; the result is     *)
(* a function of the two directories of that index only.                   *)
C12_MissingPresetFailsAtOnce ==
    \A k \in CmpResults :
        ~BothPresent(k) =>
            /\ ~cmp.results[k].pass
            /\ cmp.results[k].metrics = {}
            /\ cmp.results[k].correlation = "none"
            /\ cmp.results[k].issues =
                   IF ~ResultBaseline(k).exists THEN <<"Baseline preset missing">>
                   ELSE <<"Current preset missing">>

(* --preset 5 0 with preset 5 absent from the current set only, while      *)
(* preset 0 passes                                                         *)
C12_Witness ==
    /\ cmp.pc = "done"
    /\ Len(cmp.results) = 2
    /\ ResultBaseline(1).exists /\ ~ResultCurrent(1).exists
    /\ cmp.results[1].issues = <<"Current preset missing">>
    /\ cmp.results[2].pass

(* ---- C13 ---- *)
AllMetricKeys == {"rt60_diff_pct", "freq_flatness_diff_db", "spatial", "waveform"}

FailingComparisons(k) ==
    LET b == ResultBaseline(k)
        c == ResultCurrent(k)
        w == compare_waveforms(b.wet, c.wet)
        CueFails(x, y, limit) == x # Null /\ y # Null /\ Abs(x - y) > limit
    IN  (IF Loaded(b.rt60) /\ Loaded(c.rt60) /\ ~compare_rt60(b.rt60, c.rt60).pass
         THEN {compare_rt60(b.rt60, c.rt60).msg} ELSE {})
        \cup (IF Loaded(b.freq) /\ Loaded(c.freq)
                 /\ ~compare_frequency_response(b.freq, c.freq).pass
              THEN {compare_frequency_response(b.freq, c.freq).msg} ELSE {})
        \cup (IF Loaded(b.spatial) /\ Loaded(c.spatial)
                 /\ CueFails(b.spatial.itd, c.spatial.itd, SpatialItdThreshold)
              THEN {"Spatial: ITD changed"} ELSE {})
        \cup (IF Loaded(b.spatial) /\ Loaded(c.spatial)
                 /\ CueFails(b.spatial.ild, c.spatial.ild, SpatialIldThreshold)
              THEN {"Spatial: ILD changed"} ELSE {})
        \cup (IF Loaded(b.spatial) /\ Loaded(c.spatial)
                 /\ CueFails(b.spatial.iacc, c.spatial.iacc, SpatialIaccThreshold)
              THEN {"Spatial: IACC changed"} ELSE {})
        \cup (IF b.wet.file = "good" /\ c.wet.file = "good" /\ ~w.error
                 /\ w.correlation = "low"
              THEN {"Waveform correlation low"} ELSE {})
        \cup (IF b.wet.file = "good" /\ c.wet.file = "good" /\ ~w.error /\ w.rms_exceeds
              THEN {"Waveform RMS difference"} ELSE {})

C14_MissingMetricFileFails ==
    \A k \in CmpResults :
        /\ BothPresent(k)
        /\ "absent" \in {ResultBaseline(k).rt60.file, ResultCurrent(k).rt60.file,
                         ResultBaseline(k).freq.file, ResultCurrent(k).freq.file}
        => ~cmp.results[k].pass

(* ---- C15 ---- *)
(* C15: a preset compared with an identical copy of itself (the same       *)
(* wet.wav, the same metric documents) passes with no issue and a          *)
(* waveform correlation of 1.0, whatever the files hold.                   *)
C15_IdenticalCopyPasses ==
    \A k \in CmpResults :
        /\ BothPresent(k)
        /\ ResultBaseline(k) = ResultCurrent(k)
        /\ ResultBaseline(k).rt60.file = "good"
        /\ ResultBaseline(k).freq.file = "good"
        /\ ResultBaseline(k).wet.file = "good"
        => /\ cmp.results[k].pass
           /\ cmp.results[k].issues = <<>>
           /\ cmp.results[k].correlation = "one"

(* ---- C16 ---- *)
Passed(k) == cmp.results[k].pass

(* C16: a comparison that runs to its end has produced one result per      *)
(* requested preset index, in the order requested (0..36 when --preset is  *)
(* not given); the counts of the report add up to the number of results;   *)
(* the exit code is 1 if a preset failed and 0 if none did.                *)
C16_OneResultPerIndexAndExitCode ==
    cmp.pc = "done" =>
        LET wanted == IF cmp.args.preset # <<>> THEN cmp.args.preset
                      ELSE [j \in 1 .. 37 |-> j - 1]
            failed == {k \in CmpResults : ~Passed(k)}
        IN  /\ Len(cmp.results) = Len(wanted)
            /\ \A k \in CmpResults : cmp.results[k].preset_index = wanted[k]
            /\ cmp.args.output =>
                   /\ cmp.report.written
                   /\ cmp.report.results = cmp.results
                   /\ cmp.report.total = Len(cmp.results)
                   /\ cmp.report.total = cmp.report.passed + cmp.report.failed
                   /\ cmp.report.failed = Cardinality(failed)
            /\ cmp.exit = IF failed # {} THEN 1 ELSE 0

(* all 37 presets compared, some passing and some failing, report written *)
C16_Witness ==
    /\ cmp.pc = "done"
    /\ cmp.args.preset = <<>>
    /\ Len(cmp.results) = 37
    /\ cmp.report.written
    /\ cmp.report.passed = 36
    /\ cmp.report.failed = 1
    /\ cmp.exit = 1

(* ================================================================== *)
(* Properties of the tools' exit codes, the checker and the estimator  *)
(* ================================================================== *)
(* ---- C17 ---- *)
(* C17: a tool that is given a missing or unreadable input ends with exit  *)
(* code 2: the comparator for a baseline or current directory that does    *)
(* not exist, the RT60 analyzer for a WAV file that does not exist or      *)
(* cannot be read, the stability checker for a WAV file that does not      *)
(* exist or has an unsupported sample width.                               *)
C17_InputErrorsExitTwo ==
    /\ (cmp.pc # "off" /\ cmp.exit # Null
          /\ (~cmp.args.baseline_exists \/ ~cmp.args.current_exists))
       => cmp.exit = 2
    /\ (est.pc # "off" /\ est.exit # Null
          /\ (~est.file.exists \/ ~est.file.readable))
       => est.exit = 2
    /\ (chk.pc # "off" /\ chk.exit # Null
          /\ (~chk.file.exists \/ chk.file.sample_width \notin {2, 3, 4}))
       => chk.exit = 2

(* ---- C18 ---- *)
(* C18: once the checker has applied its thresholds, the verdict is pass   *)
(* iff none of the four checks (NaN count, Inf count, denormal share, DC   *)
(* level) fails, the violation list holds one entry for each failing       *)
(* check and no other, and the exit code is 0 iff the list is empty; the   *)
(* checker never exits 0 without having applied the thresholds.            *)
C18_EveryFailingCheckListed ==
    chk.pc # "off" =>
        /\ chk.exit = 0 => chk.checked
        /\ chk.checked =>
               LET nan == chk.stats.nan_count > 0
                   inf == chk.stats.inf_count > 0
                   den == DenormalsExceed(chk.stats)
                   dc  == DcExceeds(chk.stats)
               IN  /\ chk.passed <=> (~nan /\ ~inf /\ ~den /\ ~dc)
                   /\ chk.violations =
                          (IF nan THEN <<"NaN detected">> ELSE <<>>)
                          \o (IF inf THEN <<"Inf detected">> ELSE <<>>)
                          \o (IF den THEN <<"Excessive denormals">> ELSE <<>>)
                          \o (IF dc THEN <<"DC offset too high">> ELSE <<>>)
                   /\ chk.exit \in {0, 1}
                   /\ chk.exit = 0 <=> chk.violations = <<>>

(* a recording in which three checks fail at once; each check is also seen *)
(* failing alone in other recordings                                       *)
C18_Witness ==
    /\ chk.pc = "done"
    /\ Len(chk.violations) = 3
    /\ Has(chk.violations, "DC offset too high")
    /\ chk.exit = 1

(* ---- C19 ---- *)
(* C19: for a WAV file of whole frames that holds exactly one NaN sample   *)
(* the checker reports nan_count = 1 and fails, whatever the other samples *)
(* are.                                                                    *)
C19_SingleNanCountedOnce ==
    (chk.pc # "off" /\ chk.exit # Null /\ chk.argc = 2 /\ chk.file.exists
       /\ Len(chk.file.data) % chk.file.channels = 0
       /\ Count(chk.file.data, {"nan"}) = 1)
    => /\ chk.checked
       /\ chk.stats.nan_count = 1
       /\ ~chk.passed

(* ---- C20 ---- *)
TierOrder(has_pra) ==
    IF has_pra THEN <<"pyroomacoustics", "schroeder60", "schroeder30">>
    ELSE <<"schroeder60", "schroeder30">>

TierTag(tier) ==
    CASE tier = "pyroomacoustics" -> "pyroomacoustics"
      [] tier = "schroeder60" -> "manual"
      [] OTHER -> "manual_RT30_extrapolated"

(* C20: in a finished analysis the tiers were tried in the order external  *)
(* estimator (if installed), 60 dB crossing, 30 dB crossing; each tier but *)
(* the last one tried had failed, and the last one tried succeeded unless  *)
(* it is the 30 dB tier; the external estimator failed iff it raised or    *)
(* gave None, NaN or a value that is not positive; the document's RT60 is  *)
(* the value of the tier that succeeded (null if none did), its two method *)
(* tags agree and name that tier, and the tag says extrapolated exactly    *)
(* when the value comes from the 30 dB tier.                               *)
C20_TiersInOrderAndTagged ==
    (est.pc # "off" /\ est.pc = "done") =>
        LET n     == Len(est.calls)
            order == TierOrder(est.has_pra)
            last  == est.calls[n]
        IN  /\ n >= 1 /\ n <= Len(order)
            /\ \A j \in 1 .. n : est.calls[j].tier = order[j]
            /\ \A j \in 1 .. n - 1 : est.calls[j].rt60 = Null
            /\ n < Len(order) => last.rt60 # Null
            /\ est.has_pra =>
                   (est.calls[1].rt60 = Null <=> ~(est.pra.kind = "value" /\ est.pra.v > 0))
            /\ est.doc.built
            /\ est.doc.rt60_seconds = last.rt60
            /\ est.doc.method = est.doc.analysis_method
            /\ last.rt60 # Null => est.doc.method = TierTag(last.tier)
            /\ est.doc.method = "manual_RT30_extrapolated"
                   <=> (last.tier = "schroeder30" /\ last.rt60 # Null)

(* the external estimator and the 60 dB crossing both failed and the       *)
(* extrapolated value was written                                          *)
C20_Witness ==
    /\ est.pc = "done"
    /\ est.has_pra
    /\ Len(est.calls) = 3
    /\ est.doc.rt60_seconds # Null
    /\ est.doc.saved
    /\ est.doc.method = "manual_RT30_extrapolated"
(* ================================================================== *)
(* The sweep and the decay estimator it invokes                        *)
(* ================================================================== *)
(* Either the sweep runs (its RT60 step stands for a whole run of the   *)
(* estimator) or the estimator runs on one recording.                   *)
InitPipeline ==
    \/ Init
    \/ SweepIdle /\ est \in EstRuns /\ cmp = NotRun /\ chk = NotRun /\ val = NotRun /\ spa = NotRun /\ ldr = NotRun

NextPipeline ==
    \/ Next
    \/ EstLoad
    \/ EstPra
    \/ EstManual
    \/ EstRt30
    \/ EstCurve
    \/ EstBuild

SpecPipeline == InitPipeline /\ [][NextPipeline]_vars

(* every tier that was tried gave None, and at least one was tried *)
NoTierYielded ==
    /\ est.pc # "off"
    /\ est.calls # <<>>
    /\ \A k \in DOMAIN est.calls : est.calls[k].rt60 = Null
    /\ est.calls[Len(est.calls)].tier = "schroeder30"

(* the estimator's side: having found no RT60 it ends with exit code 0    *)
(* and a document that holds null, a method and the signal quality         *)
EstimatorNullIsAnOutcome ==
    (NoTierYielded /\ est.pc \in {"done", "returned"}) =>
        /\ est.exit = 0
        /\ est.doc.built
        /\ est.doc.saved = est.output
        /\ est.doc.rt60_seconds = Null
        /\ est.doc.method \in {"manual", "pyroomacoustics", "manual_RT30_extrapolated"}
        /\ est.doc.analysis_method = est.doc.method
        /\ est.doc.peak # Null

(* the orchestrator's side: an RT60 run that wrote a document with null    *)
(* leaves the failure counter and the exit code alone and goes on to the   *)
(* frequency analysis; the cell's row then holds null                      *)
SweepNullIsAnOutcome ==
    /\ (/\ pc = "rt60"
        /\ "rt60_metrics.json" \in fs'[CellDir(i)].written \ fs[CellDir(i)].written
        /\ fs'[CellDir(i)].rt60_json = "good"
        /\ fs'[CellDir(i)].rt60 = Null)
          => (failures' = failures /\ exitCode' = exitCode /\ pc' = "freq")
    /\ (/\ pc = "record"
        /\ stability_ok # "none"
        /\ fs[CellDir(i)].rt60_json = "good"
        /\ fs[CellDir(i)].rt60 = Null)
          => /\ pc' \in {"capture", "summary", "crashed"}
             /\ pc' # "crashed" =>
                   /\ Len(results') = Len(results) + 1
                   /\ results'[Len(results')].rt60_seconds = Null
                   /\ failures' = failures
                   /\ exitCode' = exitCode

(* C21: a decay time that cannot be estimated is not fatal.  When every    *)
(* tier fails the RT60 tool still builds its document with                  *)
(* broadband.rt60_seconds = null, the method and the signal quality, and   *)
(* exits 0; the orchestrator records the cell with rt60_seconds = null     *)
(* without counting a failure and without stopping, --strict or not.       *)
C21_NullRt60IsNotFatal ==
    [](EstimatorNullIsAnOutcome) /\ [][SweepNullIsAnOutcome]_vars

(* a --strict sweep that ended with exit code 0 and no failure, having run *)
(* the RT60 tool on a cell whose row holds null                            *)
C21_Witness ==
    /\ pc = "done" /\ args.strict /\ exitCode = 0 /\ failures = 0
    /\ \E k \in DOMAIN results :
          /\ results[k].rt60_seconds = Null
          /\ inv[k].rt60 = 1
          /\ fs[CellDir(k)].rt60_json = "good"

(* the estimator ended after all three tiers failed *)
C21_WitnessEstimator ==
    /\ NoTierYielded /\ est.pc = "done" /\ Len(est.calls) = 3
    /\ est.doc.saved /\ est.doc.rt60_seconds = Null /\ est.exit = 0

(* the RT60 analyze_rt60 settles on without pyroomacoustics (174-190) *)
ChosenRt60(energy) ==
    IF TierManual(energy).rt60 # Null THEN TierManual(energy).rt60
    ELSE TierRt30(energy).rt60

(* the estimator ran, without pyroomacoustics, on the fixture f and found  *)
(* an RT60                                                                 *)
EstimatedFixture(f) ==
    /\ est.pc = "done"
    /\ ~est.has_pra
    /\ est.file.energy = Decay(f)
    /\ est.doc.rt60_seconds # Null

(* C22 (first half): the RT60 chosen for a fixture recording, counted in   *)
(* samples, is at most the number of samples of the recording.             *)
C22_WithinDuration ==
    \A f \in Fixtures : EstimatedFixture(f) => est.doc.rt60_seconds <= f.n

(* C22 (second half): a fixture that differs only by a shallower slope is  *)
(* given an RT60 that is not smaller.                                      *)
C22_MonotoneInSlope ==
    \A f, g \in Fixtures :
        (/\ EstimatedFixture(f)
         /\ g.peak = f.peak /\ g.floor = f.floor /\ g.n = f.n
         /\ g.slope < f.slope
         /\ ChosenRt60(Decay(g)) # Null)
          => ChosenRt60(Decay(g)) >= est.doc.rt60_seconds

(* C22: for every recording of an early impulse followed by an             *)
(* exponential decay to a noise floor, the RT60 the estimator chooses,     *)
(* extrapolated or not, is at most the recording's duration and does not   *)
(* decrease when the decay is made shallower.                              *)
C22_WithinDurationAndMonotone ==
    C22_WithinDuration /\ C22_MonotoneInSlope

(* ================================================================== *)
(* Properties of the schema validator                                  *)
(* ================================================================== *)
(* the filename conventions in their order of priority *)
Conventions ==
    << [words |-> {<<"r", "t", "6", "0">>}, names |-> {}, schema |-> "rt60_metrics"],
       [words |-> {<<"f", "r", "e", "q">>}, names |-> {}, schema |-> "frequency_response"],
       [words |-> {<<"c", "a", "p", "t", "u", "r", "e">>}, names |-> {<<"m", "e", "t", "a", "d", "a", "t", "a", ".", "j", "s", "o", "n">>},
        schema |-> "capture_metadata"],
       [words |-> {<<"r", "e", "g", "r", "e", "s", "s", "i", "o", "n">>}, names |-> {}, schema |-> "regression_report"],
       [words |-> {<<"c", "p", "u">>, <<"p", "r", "o", "f", "i", "l", "e">>}, names |-> {},
        schema |-> "cpu_profile"] >>

ConventionHits(name) ==
    {c \in DOMAIN Conventions :
        \/ \E w \in Conventions[c].words : Contains(Lower(name), w)
        \/ Lower(name) \in Conventions[c].names}

(* the required keys of each family, looked for in a JSON object *)
KeysRule(data) ==
    LET bb(key) == /\ {"octave_bands", "broadband"} \subseteq data.has
                   /\ data.broadband.kind = "object"
                   /\ key \in data.broadband.has
    IN  IF data.kind # "object" THEN "None"
        ELSE IF bb("rt60_seconds") THEN "rt60_metrics"
        ELSE IF bb("flatness_db") THEN "frequency_response"
        ELSE IF {"plugin_path", "test_type", "block_size"} \subseteq data.has
        THEN "capture_metadata"
        ELSE IF {"baseline_dir", "preset_results", "overall_pass"} \subseteq data.has
        THEN "regression_report"
        ELSE IF {"top_functions", "module_breakdown", "estimated_cpu_load_percent"}
                    \subseteq data.has
        THEN "cpu_profile"
        ELSE "None"

(* the schema_type argument validate_file is called with *)
ExplicitSchema == IF val.path = "file" THEN val.schema_arg ELSE "None"

ExpectedSchema(file) ==
    IF ExplicitSchema # "None" THEN ExplicitSchema
    ELSE IF ConventionHits(file.name) # {}
    THEN Conventions[SetMin(ConventionHits(file.name))].schema
    ELSE KeysRule(file.data)

ValLog == IF val.pc = "off" THEN {} ELSE DOMAIN val.log

(* the selection made for every file that was validated follows the        *)
(* priorities, and an undetected schema is a validation failure            *)
SelectionFollowsPriorities ==
    \A e \in ValLog :
        LET file == val.files[val.log[e].file]
        IN  file.parses =>
              /\ val.log[e].schema = ExpectedSchema(file)
              /\ ExpectedSchema(file) = "None" =>
                    /\ ~val.log[e].success
                    /\ val.log[e].message = "Could not auto-detect schema type"

(* C23: schema selection is a total, prioritized function of the explicit  *)
(* schema name, the file name and the document: the explicit name is used  *)
(* as is, else the first matching filename convention decides whatever the *)
(* document holds, else the family's required keys, else Unknown, which    *)
(* validate_file reports as a validation failure.  Total: the validator    *)
(* never ends in an exception.                                             *)
C23_SchemaSelectionTotalAndPrioritized ==
    /\ val.pc # "crashed"
    /\ SelectionFollowsPriorities

(* the JSON files that are not metric documents *)
KnownNonMetric(file) ==
    \/ file.under_schemas
    \/ file.name \in {<<"m", "a", "n", "i", "f", "e", "s", "t", ".", "j", "s", "o", "n">>, <<"p", "a", "c", "k", "a", "g", "e", ".", "j", "s", "o", "n">>,
                      <<"s", "w", "e", "e", "p", "_", "m", "a", "n", "i", "f", "e", "s", "t", ".", "j", "s", "o", "n">>, <<"s", "w", "e", "e", "p", "_", "s", "u", "m", "m", "a", "r", "y", ".", "j", "s", "o", "n">>}

EntriesOf(j) == Cardinality({e \in ValLog : val.log[e].file = j})

(* C24: a bulk validation that ran to its end validated and counted none   *)
(* of the known non-metric JSON files (manifests, among them the sweep     *)
(* manifest and the sweep summary) and every other JSON file exactly once, *)
(* as passed or failed; it exits 1 iff one of the counted files failed.    *)
C24_ManifestsSkippedOthersCountedOnce ==
    (val.pc = "exited" /\ val.path = "dir" /\ val.exit # 2) =>
        /\ \A j \in DOMAIN val.files :
              EntriesOf(j) = IF KnownNonMetric(val.files[j]) THEN 0 ELSE 1
        /\ val.passed + val.failed = Cardinality(ValLog)
        /\ val.passed = Cardinality({e \in ValLog : val.log[e].success})
        /\ val.exit = IF \E e \in ValLog : ~val.log[e].success THEN 1 ELSE 0

(* ================================================================== *)
(* Properties of the loaders                                           *)
(* ================================================================== *)
InUnitRange(x) ==
    \/ x.kind = "tiny"
    \/ x.kind = "num" /\ x.num <= x.den /\ x.num >= 0 - x.den

AllInUnitRange(samples) == \A k \in DOMAIN samples : InUnitRange(samples[k])

(* x is the file's sample, or the mean of the frame, counted in            *)
(* thousandths (the loaders' denominators are multiples of a thousand)     *)
SameAsFile(x, frame) ==
    /\ x.kind = "num"
    /\ x.den % (1000 * Len(frame)) = 0
    /\ x.num = FrameSum(frame) * (x.den \div (1000 * Len(frame)))

(* C25: whatever the WAV sample format, every loader yields samples in     *)
(* [-1, 1]: no sample of a 16-, 24- or 32-bit integer file comes out with  *)
(* a magnitude above 1, and the samples of a float file come out at the    *)
(* scale they have in the file.                                            *)
C25_LoadersNormalize ==
    (ldr.pc = "done") =>
        IF ldr.file.format = "float"
        THEN /\ ldr.checker.ok
             /\ \A k \in DOMAIN ldr.file.frames :
                   /\ SameAsFile(ldr.rt60[k], ldr.file.frames[k])
                   /\ SameAsFile(ldr.compare[k], ldr.file.frames[k])
                   /\ SameAsFile(ldr.checker.samples[k], ldr.file.frames[k])
             /\ \A k \in DOMAIN ldr.spatial :
                   SameAsFile(ldr.spatial[k], <<Flat(ldr.file.frames)[k]>>)
        ELSE /\ ldr.checker.ok
             /\ AllInUnitRange(ldr.rt60)
             /\ AllInUnitRange(ldr.spatial)
             /\ AllInUnitRange(ldr.compare)
             /\ AllInUnitRange(ldr.checker.samples)

(* ================================================================== *)
(* Properties of the comparator's metric comparisons                   *)
(* ================================================================== *)
(* the index the loop is at, or was at when the run ended in an exception *)
CurrentIndex == preset_indices(cmp.args)[cmp.k]

AllFilesReadable(preset) ==
    /\ ~load_metrics_raises(preset)
    /\ preset.wet.file # "corrupt"

(* compare_rt60 and compare_frequency_response ran for result k *)
Rt60Compared(k) ==
    BothPresent(k) /\ Loaded(ResultBaseline(k).rt60) /\ Loaded(ResultCurrent(k).rt60)

FreqCompared(k) ==
    BothPresent(k) /\ Loaded(ResultBaseline(k).freq) /\ Loaded(ResultCurrent(k).freq)

(* C26: compare_rt60 fails iff |baseline - current| / baseline is strictly *)
(* greater than the threshold, compare_frequency_response fails iff the    *)
(* flatness change is strictly greater than 10 x threshold dB; a change    *)
(* exactly at the limit passes; a value absent on a side fails with a      *)
(* 'Missing ... data' issue; and both return a verdict for every pair of   *)
(* documents, a baseline RT60 of 0 included: a run whose files are all     *)
(* readable never ends in an exception.                                    *)
C26_ThresholdVerdictsNeverRaise ==
    /\ cmp.pc = "crashed" =>
          \/ ~AllFilesReadable(BaselinePreset(cmp.dirs, CurrentIndex))
          \/ ~AllFilesReadable(CurrentPreset(cmp.dirs, CurrentIndex))
    /\ \A k \in CmpResults :
          LET b  == Rt60Of(ResultBaseline(k).rt60)
              c  == Rt60Of(ResultCurrent(k).rt60)
              fb == FlatnessOf(ResultBaseline(k).freq)
              fc == FlatnessOf(ResultCurrent(k).freq)
              issues == cmp.results[k].issues
          IN  /\ Rt60Compared(k) =>
                    /\ Has(issues, "RT60: Missing RT60 data") <=> (b = Null \/ c = Null)
                    /\ Has(issues, "RT60: RT60 changed") <=>
                          (b # Null /\ c # Null /\ Abs(b - c) * 100 > ThresholdPct * b)
              /\ FreqCompared(k) =>
                    /\ Has(issues, "Frequency: Missing frequency response data")
                          <=> (fb = Null \/ fc = Null)
                    /\ Has(issues, "Frequency: Flatness changed") <=>
                          (fb # Null /\ fc # Null /\ Abs(fb - fc) > ThresholdPct)

(* the verdicts alone, for the presets that were compared *)
C26_VerdictsOfComparedPresets ==
    cmp.pc # "crashed" => C26_ThresholdVerdictsNeverRaise

(* changes exactly at the limit that pass *)
C26_AtTheLimit ==
    \E k \in CmpResults :
        /\ Rt60Compared(k) /\ FreqCompared(k)
        /\ cmp.results[k].issues = <<>>
        /\ \/ Abs(Rt60Of(ResultBaseline(k).rt60) - Rt60Of(ResultCurrent(k).rt60)) * 100
                 = ThresholdPct * Rt60Of(ResultBaseline(k).rt60)
              /\ Rt60Of(ResultBaseline(k).rt60) > 0
           \/ Abs(FlatnessOf(ResultBaseline(k).freq) - FlatnessOf(ResultCurrent(k).freq))
                 = ThresholdPct

(* ---- sample-rate mismatch ---- *)
(* both wet.wav files of result k are readable and their rates differ *)
RatesDiffer(k) ==
    /\ BothPresent(k)
    /\ ResultBaseline(k).wet.file = "good" /\ ResultCurrent(k).wet.file = "good"
    /\ ResultBaseline(k).wet.sr # ResultCurrent(k).wet.sr

(* the result of the same preset with no wet.wav on either side *)
MetricDocumentsAlone(k) ==
    compare_preset(cmp.results[k].preset_index,
                   [ResultBaseline(k) EXCEPT !.wet = NoWav],
                   [ResultCurrent(k) EXCEPT !.wet = NoWav]).result

(* C29: when the two wet.wav files have different sample rates, the        *)
(* result holds no waveform metrics and no waveform issue, and its verdict *)
(* and issues are those of the metric-document comparisons alone.          *)
C29_RateMismatchIsNotAFailure ==
    \A k \in CmpResults :
        RatesDiffer(k) =>
            /\ "waveform" \notin cmp.results[k].metrics
            /\ cmp.results[k].correlation = "none"
            /\ ~Has(cmp.results[k].issues, "Waveform correlation low")
            /\ ~Has(cmp.results[k].issues, "Waveform RMS difference")
            /\ cmp.results[k].pass = MetricDocumentsAlone(k).pass
            /\ cmp.results[k].issues = MetricDocumentsAlone(k).issues

(* a 44.1 kHz recording compared with a 48 kHz baseline: the preset passes *)
(* with the three metric comparisons recorded, and the run exits 0         *)
C29_Witness ==
    /\ cmp.pc = "done" /\ cmp.exit = 0
    /\ \E k \in CmpResults :
          /\ RatesDiffer(k)
          /\ cmp.results[k].pass
          /\ cmp.results[k].metrics = {"rt60_diff_pct", "freq_flatness_diff_db", "spatial"}

(* the rates differ and an RT60 change fails the preset *)
C29_WitnessMetricFails ==
    \E k \in CmpResults :
        /\ RatesDiffer(k)
        /\ cmp.results[k].issues = <<"RT60: RT60 changed">>

(* ================================================================== *)
(* Properties of the stability check inside the sweep                  *)
(* ================================================================== *)
(* the stability tool has just returned for the current cell *)
StabilityReturned == pc = "stability" /\ pc' # "interrupted" /\ pc' # pc

StabilityFailureIsOnlyRecorded ==
    /\ StabilityReturned =>
          /\ stability_ok' = "false" <=> fs'[CellDir(i)].stability_log = "fail"
          /\ failures' = failures
          /\ exitCode' = exitCode
          /\ pc' = "record"
    /\ (pc = "record" /\ results' # results) =>
          results'[Len(results')].stability_ok = stability_ok

(* the cells whose stability check failed in this run are the rows with    *)
(* stability_ok false, and the exit code depends on the failure count only *)
StabilityFailuresCounted ==
    pc = "done" =>
        /\ Summary.stability_failures =
              Cardinality({j \in DOMAIN results :
                              /\ inv[j].stability > 0
                              /\ fs[results[j].output_dir].stability_log = "fail"})
        /\ exitCode = IF failures > 0 /\ args.strict THEN 1 ELSE 0

(* C30: a stability check that exits non-zero is recorded as stability_ok  *)
(* false in the cell's row and counted in the summary's                    *)
(* stability_failures; it leaves the failure count and the exit code       *)
(* unchanged and the sweep goes on to record the cell, --strict or not.    *)
C30_StabilityFailureNeverFatal ==
    [](StabilityFailuresCounted) /\ [][StabilityFailureIsOnlyRecorded]_vars

(* a --strict sweep that completed with exit 0 and no failure although a   *)
(* stability check failed                                                  *)
C30_Witness ==
    /\ pc = "done" /\ args.strict /\ exitCode = 0 /\ failures = 0
    /\ Summary.stability_failures > 0
    /\ Summary.stability_failures < Summary.runs_total

(* ================================================================== *)
(* Properties of the spatial analysis                                  *)
(* ================================================================== *)
SpaStarted == spa.pc # "off" /\ spa.exists /\ spa.audio # <<>>
SpaWindowed == SpaStarted /\ spa.pc \in {"itd", "iacc", "report", "done"}
SpaFinite == \A k \in DOMAIN spa.audio : ~spa.audio[k][1].nan /\ ~spa.audio[k][2].nan

FrameLevel(k) ==
    IF Abs(spa.audio[k][1].v) >= Abs(spa.audio[k][2].v) THEN Abs(spa.audio[k][1].v)
    ELSE Abs(spa.audio[k][2].v)

TruncationNote == "Analysis window truncated due to file length."

(* C27: for a non-empty recording of N frames and any window length, the   *)
(* window satisfies 0 <= start < end <= N, start is the first frame of     *)
(* peak magnitude across the channels, end - start is the smaller of the   *)
(* requested length and N - start, the analysis completes, and the         *)
(* truncation note is recorded iff end - start is below the requested      *)
(* length.                                                                 *)
C27_WindowWithinRecording ==
    SpaStarted =>
        /\ spa.pc # "crashed"
        /\ spa.pc = "done" => spa.exit = 0 /\ spa.reported
        /\ SpaWindowed =>
              LET N == Len(spa.audio)
              IN  /\ 0 <= spa.start /\ spa.start < spa.end /\ spa.end <= N
                  /\ SpaFinite =>
                        /\ \A j \in 1 .. N : FrameLevel(spa.start + 1) >= FrameLevel(j)
                        /\ \A j \in 1 .. spa.start : FrameLevel(j) < FrameLevel(spa.start + 1)
                  /\ spa.sample_rate * spa.window_ms >= 1000 =>
                        spa.requested = (spa.sample_rate * spa.window_ms) \div 1000
                  /\ spa.end - spa.start = Min(spa.requested, N - spa.start)
                  /\ Has(spa.notes, TruncationNote) <=> spa.end - spa.start < spa.requested

(* an 80 ms window on a four-frame recording whose peak is the second      *)
(* frame: the window is cut to three frames, the note is there, exit 0     *)
C27_Witness ==
    /\ SpaStarted /\ spa.pc = "done" /\ spa.exit = 0
    /\ Len(spa.audio) = 4 /\ spa.window_ms = 80
    /\ spa.start = 1 /\ spa.end = 4 /\ spa.requested = 80
    /\ Has(spa.notes, TruncationNote)

(* a window that fits: no note *)
C27_WitnessFits ==
    /\ SpaStarted /\ spa.pc = "done" /\ spa.exit = 0
    /\ spa.end - spa.start = spa.requested /\ spa.end < Len(spa.audio)
    /\ ~Has(spa.notes, TruncationNote)

(* ---- lag window and IACC ---- *)
SpaMeasured == SpaStarted /\ spa.pc \in {"report", "done"}

(* the configured lag in samples, at least 1 *)
ConfiguredLag ==
    IF spa.sample_rate * spa.max_lag_ms >= 1000
    THEN (spa.sample_rate * spa.max_lag_ms) \div 1000
    ELSE 1

InLagWindow ==
    /\ spa.max_lag_samples = ConfiguredLag
    /\ Abs(spa.itd_samples) <= spa.max_lag_samples
    /\ Abs(spa.iacc_lag_samples) <= spa.max_lag_samples

(* iacc = |iacc_signed| and 0 <= iacc <= 1; a NaN is neither *)
IaccInUnitRange ==
    /\ ~spa.iacc.nan /\ ~spa.iacc_signed.nan
    /\ spa.iacc = AbsValue(spa.iacc_signed)
    /\ spa.iacc.sign \in {0, 1}
    /\ 0 <= spa.iacc.num /\ spa.iacc.num <= spa.iacc.den

(* C28: for every input and maximum lag, |itd_samples| and                 *)
(* |iacc_lag_samples| are at most max_lag_samples, the configured lag      *)
(* clamped to at least one sample, and the reported iacc equals            *)
(* |iacc_signed| and lies in [0, 1].                                       *)
C28_LagsInWindowIaccInRange ==
    SpaMeasured => InLagWindow /\ IaccInUnitRange

(* the lag clauses alone *)
C28_LagsInWindow ==
    SpaMeasured => InLagWindow

(* the same for recordings whose analysis window holds finite samples only *)
C28_FiniteWindow ==
    (SpaMeasured /\ ~HasNaN(WindowOf(spa, 1)) /\ ~HasNaN(WindowOf(spa, 2)))
        => InLagWindow /\ IaccInUnitRange

(* a finite recording measured with both lags at the edge of a window of   *)
(* more than one sample, and a correlation strictly between 0 and 1        *)
C28_FiniteWindowReached ==
    /\ SpaMeasured /\ SpaFinite
    /\ spa.max_lag_samples > 1
    /\ Abs(spa.itd_samples) = spa.max_lag_samples
    /\ spa.iacc_lag_samples # 0
    /\ 0 < spa.iacc.num /\ spa.iacc.num < spa.iacc.den

====
